---- MODULE Spec2Model ----
(***************************************************************************)
(* Model of the RSS cache core (rss_reader/core.py): the SQLite-backed     *)
(* CacheDB (tables "feeds" and "items"), entry_item_id, and the            *)
(* fetch-and-reconcile function fetch_feed_items.                          *)
(*                                                                         *)
(* Python's Optional[str] is modelled as a tuple: <<>> is None and <<s>>   *)
(* is the string s.  Texts are TLA+ strings.  A response body is modelled  *)
(* by what parse_feed_xml makes of it: either it is malformed XML, or it   *)
(* parses to a sequence of ParsedEntry.                                    *)
(***************************************************************************)
EXTENDS Integers, Sequences, FiniteSets, TLC

VARIABLES
    items,      \* table "items": a set of ItemRow records
    feedRows,   \* table "feeds": a set of FeedRow records
    now,        \* int(time.time())
    last,       \* the last call made on the core
    firstSeen,  \* history: per (feed_id, item_id), the first entry ever ingested
    okHdrs,     \* history: per feed id, the headers of the last successful fetch
    data,       \* the feeds array of the configuration document (toml data)
    subs,       \* the subscriptions the last load_feed_toml returned
    file,       \* the content of the local configuration file
    save,       \* the call of save_feed_toml_text under way, or the last one
    feeds,      \* ui: the subscriptions loaded (a sequence of FeedConfig)
    selected_feed,  \* ui: the id of the feed selected, or None
    bulk,       \* ui: the "refresh all" thread
    uses,       \* history: the store operations made, by thread and handle
    txn,        \* per store handle, its upsert_items call under way
    mtx,        \* per store handle, its upsert_feed_meta call under way
    metaFrom,   \* history: per feed id, the item ids of the response its meta
                \* row was written from
    view,       \* ui: the item list displayed, the buttons, the progress bar
    atom        \* the link elements of an Atom entry and the link chosen

\* The variables of the configuration side.
cfgVars == <<data, subs>>

\* The variables of the configuration file and its writer.
fileVars == <<file, save>>

\* The variables of the store and of its callers.
coreVars == <<items, feedRows, now, last, firstSeen, okHdrs, metaFrom>>

\* The variables of the user interface.
uiVars == <<feeds, selected_feed, bulk, uses, view>>

vars == <<items, feedRows, now, last, firstSeen, okHdrs, data, subs, file, save,
          feeds, selected_feed, bulk, uses, txn, mtx, metaFrom, view, atom>>

-----------------------------------------------------------------------------
(* Bounds of the model *)

MaxEntries == 2     \* longest entry sequence of one call
MaxTime == 1        \* the clock runs over 0..MaxTime
MaxRows == 2        \* most rows the items table is let grow to

(* Program constants *)

ReadLimit == 100    \* read_items(feed, limit=100)
EntryCap == 200     \* parsed_entries[:200]

-----------------------------------------------------------------------------
(* Values *)

None == <<>>
Some(s) == <<s>>

\* Python truthiness of an Optional[str]: None and "" are falsy.
Truthy(o) == o # None /\ o[1] # ""

\* Python's `a or b`.
PyOr(a, b) == IF Truthy(a) THEN a ELSE b

Min(a, b) == IF a <= b THEN a ELSE b

\* (mutant) no cap
Take_NoCap(s, n) == s

\* s[:n]
Take(s, n) == SubSeq(s, 1, Min(Len(s), n))

SeqsUpTo(S, n) == UNION {[1..k -> S] : k \in 0..n}

\* FeedConfig (enabled subscriptions; tags play no part in the core)
Feeds ==
    { [id |-> "f1", title |-> "Feed 1", url |-> "http://one"],
      [id |-> "f2", title |-> "Feed 2", url |-> "http://two"] }

FeedIds == {f.id : f \in Feeds}

\* ParsedEntry
Entry(t, l, p, g) == [title |-> t, link |-> l, published |-> p, entry_id |-> g]

\* hashlib.sha1(s).hexdigest(), taken to be free of collisions
Sha1Hex(s) == "sha1(" \o s \o ")"

-----------------------------------------------------------------------------
(* CacheDB: the two tables and their statements *)

\* (mutant) the link tried before the entry id
entry_item_id_LinkFirst(e) ==
    IF e.link # "" THEN e.link
    ELSE IF e.entry_id # "" THEN e.entry_id
    ELSE Sha1Hex(e.title \o "\n" \o e.published)

\* entry_item_id, ParsedEntry branch: entry id, else link, else content hash
entry_item_id(e) ==
    IF e.entry_id # "" THEN e.entry_id
    ELSE IF e.link # "" THEN e.link
    ELSE Sha1Hex(e.title \o "\n" \o e.published)

\* The row upsert_items builds from one entry, inserted at time t.
ItemRowOf(feed, e, t) ==
    [ feed_id     |-> feed.id,
      item_id     |-> entry_item_id(e),
      title       |-> IF e.title # "" THEN e.title ELSE "(no title)",
      link        |-> e.link,
      published   |-> e.published,
      inserted_at |-> t ]

\* (mutant) the conflict target is item_id alone, and the row replaces the
\* rows it conflicts with
InsertOrReplace_ItemIdOnly(its, row) ==
    [ items |-> {r \in its : r.item_id # row.item_id} \cup {row},
      rowcount |-> 1 ]

\* (mutant) INSERT OR REPLACE: a conflicting row is overwritten
InsertOrReplace(its, row) ==
    [ items |-> {r \in its : ~(r.feed_id = row.feed_id /\ r.item_id = row.item_id)}
                    \cup {row},
      rowcount |-> 1 ]

\* (mutant) the statement counted whether or not it inserted
InsertCountingAttempts(its, row) ==
    IF \E r \in its : r.feed_id = row.feed_id /\ r.item_id = row.item_id
    THEN [items |-> its, rowcount |-> 1]
    ELSE [items |-> its \cup {row}, rowcount |-> 1]

\* INSERT ... ON CONFLICT (feed_id, item_id) DO NOTHING, with its rowcount
InsertOrIgnore(its, row) ==
    IF \E r \in its : r.feed_id = row.feed_id /\ r.item_id = row.item_id
    THEN [items |-> its, rowcount |-> 0]
    ELSE [items |-> its \cup {row}, rowcount |-> 1]

\* The loop of upsert_items over entries, in order, inside one session.  A
\* sequence of several entries is run as its first half and then, on the
\* table and the count that left, its second half.
RECURSIVE UpsertLoop(_, _, _, _, _)
UpsertRest(done, feed, entries, t) ==
    CASE done.inserted >= 0 ->
        UpsertLoop(done.items, feed, entries, t, done.inserted)

UpsertLoop(its, feed, entries, t, inserted) ==
    IF entries = <<>> THEN [items |-> its, inserted |-> inserted]
    ELSE IF Len(entries) = 1
    THEN LET res == InsertOrIgnore(its, ItemRowOf(feed, Head(entries), t))
         IN  [items |-> res.items, inserted |-> inserted + res.rowcount]
    ELSE UpsertRest(UpsertLoop(its, feed,
                               SubSeq(entries, 1, Len(entries) \div 2), t,
                               inserted),
                    feed,
                    SubSeq(entries, Len(entries) \div 2 + 1, Len(entries)),
                    t)

\* CacheDB.upsert_items: the table after the commit and the count returned.
upsert_items(its, feed, entries, t) == UpsertLoop(its, feed, entries, t, 0)

\* (mutant) the WHERE feed_id = ... left out
get_feed_meta_AnyFeed(rows, feed_id) ==
    IF rows = {} THEN [etag |-> None, last_modified |-> None]
    ELSE LET r == CHOOSE r \in rows : TRUE
         IN  [etag |-> r.etag, last_modified |-> r.last_modified]

\* CacheDB.get_feed_meta: (etag, last_modified), both None without a row.
get_feed_meta(rows, feed_id) ==
    LET hit == {r \in rows : r.feed_id = feed_id}
    IN  IF hit = {} THEN [etag |-> None, last_modified |-> None]
        ELSE LET r == CHOOSE r \in hit : TRUE
             IN  [etag |-> r.etag, last_modified |-> r.last_modified]

\* (mutant) ON CONFLICT DO UPDATE that keeps a stored value when the new one
\* is None
upsert_feed_meta_KeepStored(rows, feed_id, url, etag, last_modified, t) ==
    LET hit == {r \in rows : r.feed_id = feed_id}
        keep(new, fld) == IF new = None /\ hit # {}
                          THEN (CHOOSE r \in hit : TRUE)[fld] ELSE new
    IN  (rows \ hit)
            \cup {[ feed_id       |-> feed_id,
                    url           |-> url,
                    etag          |-> keep(etag, "etag"),
                    last_modified |-> keep(last_modified, "last_modified"),
                    updated_at    |-> t ]}

\* CacheDB.upsert_feed_meta: INSERT ... ON CONFLICT (feed_id) DO UPDATE
upsert_feed_meta(rows, feed_id, url, etag, last_modified, t) ==
    {r \in rows : r.feed_id # feed_id}
        \cup {[ feed_id       |-> feed_id,
                url           |-> url,
                etag          |-> etag,
                last_modified |-> last_modified,
                updated_at    |-> t ]}

\* FeedItem built by read_items from one row
FeedItemOf(feed, r) ==
    [ feed_id    |-> feed.id,
      feed_title |-> feed.title,
      title      |-> r.title,
      link       |-> r.link,
      published  |-> r.published ]

\* (mutant) ORDER BY inserted_at ASC
RowOrders_Ascending(R) ==
    { s \in [1..Cardinality(R) -> R] :
        \A i, j \in 1..Cardinality(R) :
            i < j => s[i] # s[j] /\ s[i].inserted_at <= s[j].inserted_at }

\* The orders ORDER BY inserted_at DESC allows for a set of rows: rows with
\* equal inserted_at come in an order SQL leaves to the engine.
RowOrders(R) ==
    { s \in [1..Cardinality(R) -> R] :
        \A i, j \in 1..Cardinality(R) :
            i < j => s[i] # s[j] /\ s[i].inserted_at >= s[j].inserted_at }

\* The SELECT of read_items: every row sequence the query may return.
read_rows(its, feed, limit) ==
    LET R == {r \in its : r.feed_id = feed.id}
    IN  { SubSeq(s, 1, Min(Cardinality(R), limit)) : s \in RowOrders(R) }

\* CacheDB.read_items: every sequence the query may return.
read_items(its, feed, limit) ==
    { [i \in 1..Len(rs) |-> FeedItemOf(feed, rs[i])] :
        rs \in read_rows(its, feed, limit) }

\* cache.read_items(feed), as fetch_feed_items calls it: the default limit.
read_back(its, feed) == read_items(its, feed, ReadLimit)

-----------------------------------------------------------------------------
(* The HTTP exchange *)

\* What httpx hands back for one GET: it raised (kind "neterr"), or a response
\* with a status, the ETag and Last-Modified headers as Headers.get returns
\* them whatever their case on the wire (None when absent), and a body.  The
\* body is given by what parse_feed_xml makes of it: malformed, or entries.
NetErr(d) ==
    [ kind |-> "neterr", detail |-> d, status |-> 0, etag |-> None,
      last_modified |-> None, wellformed |-> FALSE, entries |-> <<>> ]

Response(st, e, lm, wf, es) ==
    [ kind |-> "http", detail |-> "", status |-> st, etag |-> e,
      last_modified |-> lm, wellformed |-> wf, entries |-> es ]

\* parse_feed_xml on the body of a response: the entries, or ET.ParseError.
parse_feed_xml(resp) ==
    IF resp.wellformed
    THEN [ok |-> TRUE, entries |-> resp.entries, detail |-> ""]
    ELSE [ok |-> FALSE, entries |-> <<>>, detail |-> "syntax error"]

\* The conditional headers fetch_feed_items sets from the stored meta;
\* None stands for a header that is not sent.
request_headers(meta) ==
    [ user_agent        |-> "flet-rss-feed/0.1",
      if_none_match     |-> IF Truthy(meta.etag) THEN meta.etag ELSE None,
      if_modified_since |-> IF Truthy(meta.last_modified)
                            THEN meta.last_modified ELSE None ]

NoRequest ==
    [user_agent |-> "", if_none_match |-> None, if_modified_since |-> None]

\* (mutant) the 304 test left out
status_class_No304(status) ==
    IF status < 200 \/ status >= 300 THEN "http_error" ELSE "ok"

\* (mutant) 300 taken for a success
status_class_Gt300(status) ==
    IF status = 304 THEN "not_modified"
    ELSE IF status < 200 \/ status > 300 THEN "http_error"
    ELSE "ok"

\* The two tests fetch_feed_items makes on r.status_code, in their order.
status_class(status) ==
    IF status = 304 THEN "not_modified"
    ELSE IF status < 200 \/ status >= 300 THEN "http_error"
    ELSE "ok"

\* The steps of fetch_feed_items that go to the store; "none": no step fails.
StoreSteps == {"get_feed_meta", "upsert_items", "upsert_feed_meta", "read_items"}

\* One way a call of fetch_feed_items can end: the tables and the clock it
\* leaves, and either an exception (raised) or the pair (ret, status).
Outcome(its, rows, t, raised, ret, status, req) ==
    [ items |-> its, feedRows |-> rows, now |-> t, raised |-> raised,
      ret |-> ret, status |-> status, req |-> req ]

\* (mutant) the failure is let through to the caller
degrade_Raises(its, rows, t, feed, msg, req, failAt) ==
    {Outcome(its, rows, t, TRUE, <<>>, "", req)}

\* The failure paths: cached = cache.read_items(feed); return cached, msg
degrade(its, rows, t, feed, msg, req, failAt) ==
    IF failAt = "read_items"
    THEN {Outcome(its, rows, t, TRUE, <<>>, "", req)}
    ELSE {Outcome(its, rows, t, FALSE, c, msg, req) : c \in read_back(its, feed)}

\* (mutant) the parsed entries are returned, not the items read back
reconcile_ReturnsParsed(its, rows, t, feed, resp, entries, req, failAt) ==
    IF failAt = "upsert_items" THEN {Outcome(its, rows, t, TRUE, <<>>, "", req)}
    ELSE
    LET up == upsert_items(its, feed, Take(entries, EntryCap), t)
        new_etag == PyOr(resp.etag, resp.etag)
        new_last_modified == PyOr(resp.last_modified, resp.last_modified)
    IN
    IF failAt = "upsert_feed_meta"
    THEN {Outcome(up.items, rows, t, TRUE, <<>>, "", req)}
    ELSE
    { LET rows2 == upsert_feed_meta(rows, feed.id, feed.url, new_etag,
                                    new_last_modified, t2)
      IN  IF failAt = "read_items"
          THEN Outcome(up.items, rows2, t2, TRUE, <<>>, "", req)
          ELSE Outcome(up.items, rows2, t2, FALSE,
                       [i \in 1..Len(entries) |->
                           FeedItemOf(feed, ItemRowOf(feed, entries[i], t))],
                       "Updated. New items: " \o ToString(up.inserted) \o ".",
                       req)
      : t2 \in t..Min(t + 1, MaxTime) }

\* What a run of the success path has written: the tables, the clock, the
\* count of upsert_items, and whether both writes were made.
Written(its, rows, t, inserted, done) ==
    [items |-> its, feedRows |-> rows, now |-> t, inserted |-> inserted,
     done |-> done]

\* (mutant) the feed meta is persisted before the items are upserted
reconcile_writes_MetaFirst(its, rows, t, feed, resp, entries, failAt) ==
    IF failAt = "upsert_feed_meta" THEN {Written(its, rows, t, 0, FALSE)}
    ELSE
    LET rows2 == upsert_feed_meta(rows, feed.id, feed.url,
                                  PyOr(resp.etag, resp.etag),
                                  PyOr(resp.last_modified, resp.last_modified), t)
    IN
    IF failAt = "upsert_items" THEN {Written(its, rows2, t, 0, FALSE)}
    ELSE
    LET up == upsert_items(its, feed, Take(entries, EntryCap), t)
    IN  {Written(up.items, rows2, t, up.inserted, TRUE)}

\* The writes of the success path, in their order: upsert the first EntryCap
\* entries, then persist the response's ETag / Last-Modified (the clock may
\* move on in between).  A write that raises ends the run.
reconcile_writes(its, rows, t, feed, resp, entries, failAt) ==
    IF failAt = "upsert_items" THEN {Written(its, rows, t, 0, FALSE)}
    ELSE
    LET up == upsert_items(its, feed, Take(entries, EntryCap), t)
        new_etag == PyOr(resp.etag, resp.etag)
        new_last_modified == PyOr(resp.last_modified, resp.last_modified)
    IN
    IF failAt = "upsert_feed_meta"
    THEN {Written(up.items, rows, t, up.inserted, FALSE)}
    ELSE
    { Written(up.items,
              upsert_feed_meta(rows, feed.id, feed.url, new_etag,
                               new_last_modified, t2),
              t2, up.inserted, TRUE)
      : t2 \in t..Min(t + 1, MaxTime) }

\* The success path: the two writes, then the items read back.
reconcile(its, rows, t, feed, resp, entries, req, failAt) ==
    UNION {
        IF ~w.done \/ failAt = "read_items"
        THEN {Outcome(w.items, w.feedRows, w.now, TRUE, <<>>, "", req)}
        ELSE { Outcome(w.items, w.feedRows, w.now, FALSE, c,
                       "Updated. New items: " \o ToString(w.inserted) \o ".",
                       req) :
                 c \in read_back(w.items, feed) }
        : w \in reconcile_writes(its, rows, t, feed, resp, entries, failAt) }

\* fetch_feed_items(cache, feed) against the tables its/rows at time t, when
\* the GET ends as resp and the store step failAt (if reached) raises: the
\* set of ways the call can end.
fetch_feed_items(its, rows, t, feed, resp, failAt) ==
    LET meta == get_feed_meta(rows, feed.id)
        req  == request_headers(meta)
    IN
    IF failAt = "get_feed_meta"
    THEN {Outcome(its, rows, t, TRUE, <<>>, "", NoRequest)}
    ELSE IF resp.kind = "neterr"
    THEN degrade(its, rows, t, feed,
                 "Network error, showing cached items: " \o resp.detail,
                 req, failAt)
    ELSE IF status_class(resp.status) = "not_modified"
    THEN degrade(its, rows, t, feed,
                 "Not modified (304), loaded from cache.", req, failAt)
    ELSE IF status_class(resp.status) = "http_error"
    THEN degrade(its, rows, t, feed,
                 "HTTP " \o ToString(resp.status) \o ", showing cached items.",
                 req, failAt)
    ELSE
    LET parsed == parse_feed_xml(resp) IN
    IF ~parsed.ok
    THEN degrade(its, rows, t, feed,
                 "Failed to parse feed XML, showing cached items: "
                     \o parsed.detail,
                 req, failAt)
    ELSE reconcile(its, rows, t, feed, resp, parsed.entries, req, failAt)

-----------------------------------------------------------------------------
(* Inputs of the model *)

\* Fields of the entries a feed document can hold.  parse_feed_xml never
\* yields an empty title (it puts "(no title)"); link, published and the
\* entry id may each be empty.
Contents == {<<"A", "p">>, <<"A", "">>, <<"B", "">>}   \* title, published
Links    == {"", "l1", "l2"}
Guids    == {"", "g1", "g2"}

ParsedEntries ==
    {Entry(c[1], l, c[2], g) : c \in Contents, l \in Links, g \in Guids}

\* The entries the calls of the state machine are made with.
x1 == Entry("A", "l1", "p", "g1")
x2 == Entry("B", "l1", "", "g2")    \* the link of x1 under another guid
x3 == Entry("B", "l2", "", "g1")    \* the guid of x1 with another content
x4 == Entry("A", "l1", "p", "")     \* no guid: the link is the key
x5 == Entry("A", "", "p", "")       \* neither: the content hash is the key

StoreEntries == {x1, x2, x3, x4, x5}
BodyEntries == {x1, x3}

Statuses == {199, 200, 299, 300, 304, 404}
ETags    == {None, Some(""), Some("e1"), Some("e2")}
LastMods == {None, Some("m1")}

\* Responses to explore the items table with: no conditional headers.
StoreResponses ==
    {NetErr("timed out")}
        \cup {Response(st, None, None, FALSE, <<>>) : st \in Statuses}
        \cup {Response(st, None, None, TRUE, <<x1>>) : st \in Statuses}
        \cup {Response(200, None, None, TRUE, es) :
                es \in SeqsUpTo(BodyEntries, MaxEntries)}

\* Responses to explore the feeds table with: every header, few bodies.
HttpResponses ==
    {NetErr("timed out")}
        \cup {Response(st, e, lm, FALSE, <<>>) :
                st \in Statuses, e \in ETags, lm \in LastMods}
        \cup {Response(st, e, lm, TRUE, <<x1>>) :
                st \in Statuses, e \in ETags, lm \in LastMods}

\* Responses to explore store failures with.
FaultResponses ==
    {NetErr("timed out")}
        \cup {Response(st, e, None, FALSE, <<>>) :
                st \in Statuses, e \in {None, Some("e1")}}
        \cup {Response(st, e, None, TRUE, es) :
                st \in Statuses, e \in {None, Some("e1")},
                es \in {<<x1>>, <<x3, x4>>}}

-----------------------------------------------------------------------------
(* History *)

\* A fetch ingests the entries of its response when it reaches upsert_items
\* and that commits.
Ingests(resp, failAt) ==
    /\ resp.kind = "http"
    /\ resp.status >= 200 /\ resp.status < 300
    /\ resp.wellformed
    /\ failAt \notin {"get_feed_meta", "upsert_items"}

\* The first entry ever ingested for each (feed_id, item_id).
RECURSIVE NoteFirst(_, _, _)
NoteFirst(seen, feed, entries) ==
    IF entries = <<>> THEN seen
    ELSE LET e  == Head(entries)
             id == entry_item_id(e)
         IN  NoteFirst(
                 IF \E g \in seen : g.feed_id = feed.id /\ g.item_id = id
                 THEN seen
                 ELSE seen \cup {[feed_id |-> feed.id, item_id |-> id,
                                  entry |-> e]},
                 feed, Tail(entries))

\* Some entry of the sequence is a re-sighting with another content: its
\* (feed_id, item_id) was ingested before with another title, link or
\* published.
Resights(seen, feed, entries) ==
    \E i \in 1..Len(entries) :
        \E g \in NoteFirst(seen, feed, SubSeq(entries, 1, i - 1)) :
            /\ g.feed_id = feed.id
            /\ g.item_id = entry_item_id(entries[i])
            /\ \/ g.entry.title # entries[i].title
               \/ g.entry.link # entries[i].link
               \/ g.entry.published # entries[i].published

NoCall == [op |-> "none", feed |-> "", resight |-> FALSE, raised |-> FALSE]

NoHeaders == [etag |-> None, last_modified |-> None]

\* A configuration text: a name for its characters and what toml.loads makes
\* of them, [err |-> ..] when it raises, else the value under the key "feeds"
\* ([feeds |-> None] without the key).
Text(id, parsed) == [id |-> id, parsed |-> parsed]

\* The content of a file: a whole text, nothing, or the beginning of a text.
Whole(text) == [kind |-> "whole", text |-> text.id]
Empty == [kind |-> "empty", text |-> ""]
Partial(text) == [kind |-> "partial", text |-> text.id]

\* The configuration file before any save: a document without feeds.
InitialText == Text("t0", [feeds |-> None])

NoSave == [pc |-> "idle", text |-> "", src |-> "", error |-> "", before |-> Empty]

\* The "refresh all" thread: not running.
NoBulk ==
    [ pc |-> "idle", local_cache |-> "none", count |-> 0, processed |-> 0,
      todo |-> <<>>, items |-> <<>>, shown_for |-> None,
      captured |-> <<>>, fetched |-> <<>>, failed |-> {}, threads |-> 0,
      overlap |-> FALSE, raced |-> FALSE ]

\* Two store handles (CacheDB objects) on one database file.
Handles == {"cache", "local_cache"}

\* A handle without a call of upsert_items under way.
NoTxn == [pc |-> "idle", feed |-> "", entries |-> <<>>, todo |-> <<>>, t |-> 0,
          buf |-> {}, inserted |-> 0, skipped |-> 0, base |-> {}]

\* A handle without a call of upsert_feed_meta under way.
NoMeta == [pc |-> "idle", feed_id |-> "", url |-> "", etag |-> None,
           last_modified |-> None, t |-> 0, seq |-> 0]

\* The window after construction: nothing displayed, the buttons enabled,
\* the progress bar hidden.
NoView == [all_items |-> <<>>, btn_crawl_this_disabled |-> FALSE,
           btn_crawl_all_disabled |-> FALSE, progress_visible |-> FALSE]

\* No Atom entry looked at yet.
NoAtom == [links |-> <<>>, link |-> None]

-----------------------------------------------------------------------------
(* The state machine *)

Init ==
    /\ items = {}
    /\ feedRows = {}
    /\ now = 0
    /\ last = NoCall
    /\ firstSeen = {}
    /\ okHdrs = [f \in FeedIds |-> NoHeaders]
    /\ data = <<>>
    /\ subs = <<>>
    /\ file = Whole(InitialText)
    /\ save = NoSave
    /\ feeds = <<>>
    /\ selected_feed = None
    /\ bulk = NoBulk
    /\ uses = {}
    /\ txn = [h \in Handles |-> NoTxn]
    /\ mtx = [h \in Handles |-> NoMeta]
    /\ metaFrom = [f \in FeedIds |-> {}]
    /\ view = NoView
    /\ atom = NoAtom

\* time.time() moves on between calls.
Tick ==
    /\ now < MaxTime
    /\ now' = now + 1
    /\ UNCHANGED <<items, feedRows, last, firstSeen, okHdrs, metaFrom>>
    /\ UNCHANGED <<cfgVars, fileVars, uiVars, txn, mtx, atom>>

\* A call cache.upsert_items(feed, entries).
UpsertItems(feed, entries) ==
    LET up == upsert_items(items, feed, entries, now) IN
    /\ Cardinality(up.items) <= MaxRows
    /\ items' = up.items
    /\ last' = [op |-> "upsert_items", feed |-> feed.id,
                resight |-> Resights(firstSeen, feed, entries),
                raised |-> FALSE]
    /\ firstSeen' = NoteFirst(firstSeen, feed, entries)
    /\ UNCHANGED <<feedRows, now, okHdrs, metaFrom>>
    /\ UNCHANGED <<cfgVars, fileVars, uiVars, txn, mtx, atom>>

\* What a call fetch_feed_items(cache, feed) that ends as o does to the
\* store.
FetchOutcome(feed, resp, failAt, o) ==
        LET es == Take(resp.entries, EntryCap) IN
        /\ Cardinality(o.items) <= MaxRows
        /\ items' = o.items
        /\ feedRows' = o.feedRows
        /\ now' = o.now
        /\ last' = [op |-> "fetch_feed_items", feed |-> feed.id,
                    resight |-> Ingests(resp, failAt)
                                  /\ Resights(firstSeen, feed, es),
                    raised |-> o.raised]
        /\ firstSeen' = IF Ingests(resp, failAt)
                        THEN NoteFirst(firstSeen, feed, es)
                        ELSE firstSeen
        /\ okHdrs' = IF Ingests(resp, failAt) /\ ~o.raised
                     THEN [okHdrs EXCEPT ![feed.id] =
                              [etag |-> resp.etag,
                               last_modified |-> resp.last_modified]]
                     ELSE okHdrs
        /\ metaFrom' = IF \/ o.feedRows # feedRows
                          \/ Ingests(resp, failAt) /\ failAt # "upsert_feed_meta"
                       THEN [metaFrom EXCEPT ![feed.id] =
                                {entry_item_id(es[i]) : i \in 1..Len(es)}]
                       ELSE metaFrom

\* What a call fetch_feed_items(cache, feed) does to the store.
FetchEffect(feed, resp, failAt) ==
    \E o \in fetch_feed_items(items, feedRows, now, feed, resp, failAt) :
        FetchOutcome(feed, resp, failAt, o)

\* A call fetch_feed_items(cache, feed).
FetchFeedItems(feed, resp, failAt) ==
    /\ FetchEffect(feed, resp, failAt)
    /\ UNCHANGED <<cfgVars, fileVars, uiVars, txn, mtx, atom>>

\* The store under calls of upsert_items and fetch_feed_items.
Next ==
    \/ Tick
    \/ \E feed \in Feeds, entries \in SeqsUpTo(StoreEntries, MaxEntries) :
           UpsertItems(feed, entries)
    \/ \E feed \in Feeds, resp \in StoreResponses :
           FetchFeedItems(feed, resp, "none")

Spec == Init /\ [][Next]_vars

\* Fetches only, over every combination of response headers.
NextHttp ==
    \/ Tick
    \/ \E feed \in Feeds, resp \in HttpResponses :
           FetchFeedItems(feed, resp, "none")

SpecHttp == Init /\ [][NextHttp]_vars

\* Fetches during which a store operation may raise.
NextStoreFail ==
    \/ Tick
    \/ \E feed \in Feeds, resp \in FaultResponses,
          failAt \in StoreSteps \cup {"none"} :
           FetchFeedItems(feed, resp, failAt)

SpecStoreFail == Init /\ [][NextStoreFail]_vars

-----------------------------------------------------------------------------
(* Properties.  A property of a call is stated over every call that can be  *)
(* made in a reachable state: the operator of the call applied to the       *)
(* tables of that state.                                                    *)

\* Entry sequences the properties of upsert_items are checked on.
CheckSeqs ==
    SeqsUpTo({e \in ParsedEntries : <<e.title, e.published>> # <<"A", "">>},
             MaxEntries)

Keys(its) == {<<r.feed_id, r.item_id>> : r \in its}

\* C1: idempotent ingestion.  In every reachable store, for every feed and
\* entry sequence, a second upsert_items with the same sequence right after
\* the first (at the same or a later time) leaves the items table as the
\* first call left it and returns 0.
C1_IdempotentIngestion ==
    \A feed \in Feeds, es \in CheckSeqs, t \in now..MaxTime :
        LET a == upsert_items(items, feed, es, now)
            b == upsert_items(a.items, feed, es, t)
        IN  b.items = a.items /\ b.inserted = 0

\* A store just left by an upsert_items call, in which repeating a call with
\* two entries that are both stored returns 0.
C1_Witness ==
    /\ last.op = "upsert_items"
    /\ \E feed \in Feeds, es \in SeqsUpTo(StoreEntries, MaxEntries) :
         /\ feed.id = last.feed
         /\ Len(es) = 2
         /\ entry_item_id(es[1]) # entry_item_id(es[2])
         /\ \A i \in 1..2 : ItemRowOf(feed, es[i], now) \in items
         /\ upsert_items(items, feed, es, now).inserted = 0

\* C2: the items table holds at most one row per (feed_id, item_id), and the
\* title, link and published of a row are those of the first entry ever
\* ingested (by upsert_items or fetch_feed_items) under that pair.
C2_FirstWriterWins ==
    /\ \A r1, r2 \in items :
         (r1.feed_id = r2.feed_id /\ r1.item_id = r2.item_id) => r1 = r2
    /\ \A r \in items :
         \E g \in firstSeen :
            /\ g.feed_id = r.feed_id /\ g.item_id = r.item_id
            /\ r.title = g.entry.title
            /\ r.link = g.entry.link
            /\ r.published = g.entry.published

\* The last call ingested an entry whose pair was already ingested with
\* another content.
C2_Witness == last.resight /\ items # {}

\* The item id the precedence rule gives an entry.
PrecedenceId(e) ==
    CASE e.entry_id # "" -> e.entry_id
      [] e.entry_id = "" /\ e.link # "" -> e.link
      [] OTHER -> Sha1Hex(e.title \o "\n" \o e.published)

\* C3: dedup key precedence.  Every entry is persisted under its entry id
\* when that is non-empty, else under its link when that is non-empty, else
\* under the hash of title and published.  Two entries with one link and
\* different non-empty entry ids make two rows; two entries with one
\* non-empty entry id and different links make one row.
C3_DedupKeyPrecedence ==
    /\ \A feed \in Feeds, e \in ParsedEntries :
         LET a == upsert_items(items, feed, <<e>>, now) IN
         /\ <<feed.id, PrecedenceId(e)>> \in Keys(a.items)
         /\ Keys(a.items) \subseteq Keys(items) \cup {<<feed.id, PrecedenceId(e)>>}
    /\ \A feed \in Feeds, e1, e2 \in ParsedEntries :
         LET a == upsert_items(items, feed, <<e1, e2>>, now)
             mine(id) == {r \in a.items : r.feed_id = feed.id /\ r.item_id = id}
         IN
         /\ (e1.link = e2.link /\ e1.entry_id # "" /\ e2.entry_id # ""
               /\ e1.entry_id # e2.entry_id)
              => /\ Cardinality(mine(e1.entry_id)) = 1
                 /\ Cardinality(mine(e2.entry_id)) = 1
                 /\ mine(e1.entry_id) # mine(e2.entry_id)
         /\ (e1.entry_id = e2.entry_id /\ e1.entry_id # "" /\ e1.link # e2.link)
              => /\ Cardinality(mine(e1.entry_id)) = 1
                 /\ Keys(a.items) \subseteq
                        Keys(items) \cup {<<feed.id, e1.entry_id>>}

\* A feed holds two items with one link, stored under two entry ids.
C3_Witness ==
    \E r1, r2 \in items :
        /\ r1.feed_id = r2.feed_id
        /\ r1.link = r2.link /\ r1.link # ""
        /\ r1.item_id = "g1" /\ r2.item_id = "g2"

\* C4: upsert_items returns the number of (feed_id, item_id) pairs that are
\* in the table after the call and were not before, also for a sequence that
\* holds one item id more than once.
C4_CountsInsertedRows ==
    \A feed \in Feeds, es \in CheckSeqs :
        LET a == upsert_items(items, feed, es, now) IN
        a.inserted = Cardinality(Keys(a.items) \ Keys(items))

\* A non-empty store in which a call with one new item id given twice, with
\* two contents, returns 1.
C4_Witness ==
    /\ last.op = "upsert_items"
    /\ items # {}
    /\ \E feed \in Feeds, es \in SeqsUpTo(StoreEntries, MaxEntries) :
         /\ Len(es) = 2 /\ es[1] # es[2]
         /\ entry_item_id(es[1]) = entry_item_id(es[2])
         /\ upsert_items(items, feed, es, now).inserted = 1

-----------------------------------------------------------------------------
(* Properties of fetch_feed_items *)

NetFailed(resp) == resp.kind = "neterr"
In2xx(resp) == resp.kind = "http" /\ resp.status >= 200 /\ resp.status < 300
Succeeds(resp) == In2xx(resp) /\ resp.status # 304 /\ resp.wellformed

\* A store step is reached by every call (get_feed_meta, read_items) or by
\* the calls that get a 2xx response with a well-formed body.
StepReached(resp, step) ==
    step \in {"get_feed_meta", "read_items"} \/ Succeeds(resp)

Range(s) == {s[i] : i \in 1..Len(s)}

\* C5 as stated: no call of fetch_feed_items raises to its caller, whatever
\* the outcome of its steps, the store steps among them.
C5_NeverRaises == last.op = "fetch_feed_items" => ~last.raised

\* C5, amended: fetch_feed_items raises exactly when a store step it reaches
\* raises.  Whatever the outcome of the request and of the parse, if the
\* store steps succeed it returns (items, status), items being the feed's
\* cached items as the store then holds them.
C5_RaisesOnlyOnStoreFailure ==
    \A feed \in Feeds, resp \in FaultResponses,
       failAt \in StoreSteps \cup {"none"} :
        \A o \in fetch_feed_items(items, feedRows, now, feed, resp, failAt) :
            /\ o.raised <=> (failAt \in StoreSteps /\ StepReached(resp, failAt))
            /\ ~o.raised =>
                 /\ o.ret \in read_items(o.items, feed, ReadLimit)
                 /\ o.status # ""

\* A fetch has just raised on a store failure, over a store that holds items
\* and a meta row, and a fetch that meets a network failure returns the
\* cached items.
C5_Witness ==
    /\ last.op = "fetch_feed_items" /\ last.raised
    /\ feedRows # {}
    /\ \E feed \in Feeds :
         \E o \in fetch_feed_items(items, feedRows, now, feed,
                                   NetErr("timed out"), "none") :
            ~o.raised /\ Len(o.ret) = 2

\* C6: 304 short-circuit.  On a 304 response fetch_feed_items returns what
\* read_items returns for the feed before the call, leaves the items and the
\* feeds tables as they were, and reports "not modified".
C6_NotModifiedShortCircuit ==
    \A feed \in Feeds, resp \in HttpResponses :
        (resp.kind = "http" /\ resp.status = 304) =>
            \A o \in fetch_feed_items(items, feedRows, now, feed, resp, "none") :
                /\ ~o.raised
                /\ o.ret \in read_items(items, feed, ReadLimit)
                /\ o.items = items
                /\ o.feedRows = feedRows
                /\ o.status = "Not modified (304), loaded from cache."

\* A feed with a cached item and a stored ETag gets a 304 that carries
\* another ETag and a well-formed body.
C6_Witness ==
    /\ last.op = "fetch_feed_items"
    /\ \E feed \in Feeds, resp \in HttpResponses :
         /\ resp.kind = "http" /\ resp.status = 304 /\ resp.wellformed
         /\ Truthy(resp.etag)
         /\ Truthy(get_feed_meta(feedRows, feed.id).etag)
         /\ resp.etag # get_feed_meta(feedRows, feed.id).etag
         /\ \E o \in fetch_feed_items(items, feedRows, now, feed, resp, "none") :
              o.ret # <<>>

\* C7: degrade to the cached view.  When the request fails, the status is
\* outside [200,300), or a 2xx body does not parse, fetch_feed_items writes
\* nothing (items and feeds tables unchanged) and returns the feed's cached
\* items.
C7_DegradeToCache ==
    \A feed \in Feeds, resp \in HttpResponses :
        (NetFailed(resp) \/ ~In2xx(resp) \/ ~resp.wellformed) =>
            \A o \in fetch_feed_items(items, feedRows, now, feed, resp, "none") :
                /\ ~o.raised
                /\ o.items = items
                /\ o.feedRows = feedRows
                /\ o.ret \in read_items(items, feed, ReadLimit)

\* A feed with a cached item and a stored ETag gets a 300 with a well-formed
\* body and new headers.
C7_Witness ==
    /\ last.op = "fetch_feed_items"
    /\ \E feed \in Feeds, resp \in HttpResponses :
         /\ resp.kind = "http" /\ resp.status = 300 /\ resp.wellformed
         /\ Truthy(resp.etag)
         /\ Truthy(get_feed_meta(feedRows, feed.id).etag)
         /\ resp.etag # get_feed_meta(feedRows, feed.id).etag
         /\ \E o \in fetch_feed_items(items, feedRows, now, feed, resp, "none") :
              o.ret # <<>>

\* A header value as a request carries it: not sent when None or empty.
Sent(x) == IF x = None \/ x = Some("") THEN None ELSE x

\* C8 as stated: after a 2xx, non-304 response, the next request for the feed
\* carries that response's ETag and Last-Modified, each omitted when the
\* response lacked it.
C8_CarriesLast2xxHeaders ==
    \A feed \in Feeds, resp \in HttpResponses :
        (In2xx(resp) /\ resp.status # 304) =>
            \A o \in fetch_feed_items(items, feedRows, now, feed, resp, "none") :
                \A o2 \in fetch_feed_items(o.items, o.feedRows, o.now, feed,
                                           NetErr("timed out"), "none") :
                    /\ o2.req.if_none_match = resp.etag
                    /\ o2.req.if_modified_since = resp.last_modified

\* C8, amended: every request carries the ETag / Last-Modified of the most
\* recent successful fetch of the feed (2xx, non-304, body parsed), each
\* omitted when it was absent or empty; neither is sent before the first
\* successful fetch.
C8_ConditionalGet ==
    \A feed \in Feeds, resp \in HttpResponses :
        \A o \in fetch_feed_items(items, feedRows, now, feed, resp, "none") :
            /\ o.req.if_none_match = Sent(okHdrs[feed.id].etag)
            /\ o.req.if_modified_since = Sent(okHdrs[feed.id].last_modified)

\* Two feeds whose last successful fetches gave two ETags, one of them
\* without Last-Modified; the request for the first carries its own.
C8_Witness ==
    /\ last.op = "fetch_feed_items"
    /\ \E f1, f2 \in Feeds :
         /\ okHdrs[f1.id] = [etag |-> Some("e1"), last_modified |-> Some("m1")]
         /\ okHdrs[f2.id] = [etag |-> Some("e2"), last_modified |-> None]
         /\ \E o \in fetch_feed_items(items, feedRows, now, f1,
                                      NetErr("timed out"), "none") :
              o.req.if_none_match = Some("e1")

\* C9: on the success path the items returned are what read_items returns
\* from the store after the upsert: every item returned is a persisted row
\* of the feed, and the rows cached before the call are returned too (as far
\* as the limit admits).
C9_ReturnsReadBack ==
    \A feed \in Feeds, resp \in StoreResponses :
        Succeeds(resp) =>
            \A o \in fetch_feed_items(items, feedRows, now, feed, resp, "none") :
                LET mine(t) == {r \in t : r.feed_id = feed.id} IN
                /\ ~o.raised
                /\ o.items = upsert_items(items, feed,
                                          Take(resp.entries, EntryCap), now).items
                /\ o.ret \in read_items(o.items, feed, ReadLimit)
                /\ Range(o.ret) \subseteq {FeedItemOf(feed, r) : r \in mine(o.items)}
                /\ Cardinality(mine(o.items)) <= ReadLimit =>
                     {FeedItemOf(feed, r) : r \in mine(items)} \subseteq Range(o.ret)

\* A feed holds a cached item; a successful fetch whose response holds one
\* other entry returns both.
C9_Witness ==
    /\ last.op = "fetch_feed_items"
    /\ \E feed \in Feeds, resp \in StoreResponses :
         /\ Succeeds(resp) /\ Len(resp.entries) = 1
         /\ \E o \in fetch_feed_items(items, feedRows, now, feed, resp, "none") :
              /\ Len(o.ret) = 2
              /\ o.items # items

\* The message the claim gives for a response and n newly inserted rows.
ClaimedStatus(resp, n) ==
    IF NetFailed(resp)
    THEN "network error, showing cached items: " \o resp.detail
    ELSE IF resp.status = 304 THEN "not modified, loaded from cache"
    ELSE IF resp.status < 200 \/ resp.status >= 300
    THEN "HTTP " \o ToString(resp.status) \o ", showing cached items"
    ELSE IF ~resp.wellformed
    THEN "failed to parse feed, showing cached items: " \o "syntax error"
    ELSE "updated, new items: " \o ToString(n)

\* The same branches, in the same order, with the texts of the code.
CodeStatus(resp, n) ==
    IF NetFailed(resp)
    THEN "Network error, showing cached items: " \o resp.detail
    ELSE IF resp.status = 304 THEN "Not modified (304), loaded from cache."
    ELSE IF resp.status < 200 \/ resp.status >= 300
    THEN "HTTP " \o ToString(resp.status) \o ", showing cached items."
    ELSE IF ~resp.wellformed
    THEN "Failed to parse feed XML, showing cached items: " \o "syntax error"
    ELSE "Updated. New items: " \o ToString(n) \o "."

\* C10 as stated: the status message is the claim's text for the branch
\* taken, n being the number of rows the fetch newly inserted.
C10_StatusAsStated ==
    \A feed \in Feeds, resp \in StoreResponses :
        \A o \in fetch_feed_items(items, feedRows, now, feed, resp, "none") :
            o.status = ClaimedStatus(resp, Cardinality(o.items \ items))

\* C10, amended: the branches are tested in the order network failure, 304,
\* status outside [200,300), parse failure, success, and the message is the
\* code's text for the branch: "Network error, showing cached items:
\* <detail>", "Not modified (304), loaded from cache.", "HTTP <status>,
\* showing cached items.", "Failed to parse feed XML, showing cached items:
\* <detail>", "Updated. New items: <n>." with n the number of rows the fetch
\* newly inserted.
C10_StatusMessage ==
    \A feed \in Feeds, resp \in StoreResponses :
        \A o \in fetch_feed_items(items, feedRows, now, feed, resp, "none") :
            o.status = CodeStatus(resp, Cardinality(o.items \ items))

\* A fetch whose response holds two entries, one of them cached already,
\* reports one new item.
C10_Witness ==
    /\ last.op = "fetch_feed_items"
    /\ \E feed \in Feeds, resp \in StoreResponses :
         /\ Len(resp.entries) = 2
         /\ \E o \in fetch_feed_items(items, feedRows, now, feed, resp, "none") :
              o.status = "Updated. New items: 1."

-----------------------------------------------------------------------------
(* Properties of read_items *)

\* The limits read_items is checked with: the default and the small ones.
Limits == (0..MaxRows) \cup {ReadLimit}

RowsOf(its, feed) == {r \in its : r.feed_id = feed.id}

ItemsOfRows(feed, rs) == [i \in 1..Len(rs) |-> FeedItemOf(feed, rs[i])]

\* The row sequences of a feed that hold min(limit, n) distinct rows, no row
\* before one inserted later, and no row left out that was inserted later
\* than a row taken.
MostRecentFirst(its, feed, limit) ==
    LET R == RowsOf(its, feed)
        n == Min(Cardinality(R), limit)
    IN  { rs \in [1..n -> R] :
            /\ \A i, j \in 1..n : i < j =>
                   rs[i] # rs[j] /\ rs[i].inserted_at >= rs[j].inserted_at
            /\ \A r \in R : (\A i \in 1..n : rs[i] # r) =>
                   \A i \in 1..n : rs[i].inserted_at >= r.inserted_at }

C12_DeterministicRead ==
    \A feed \in Feeds, limit \in Limits :
        \A s1, s2 \in read_items(items, feed, limit) : s1 = s2

-----------------------------------------------------------------------------
(* Properties of the feeds table *)

\* C13: upsert_feed_meta is insert-or-replace by feed id.  In every
\* reachable store the feeds table holds at most one row per feed, and
\* after upsert_feed_meta(f, url, e, lm) at time t: get_feed_meta(f) is
\* exactly (e, lm), None replacing a stored value; there is exactly one row
\* for f, with the url given and updated_at = t; the rows of the other feeds
\* are as they were.
C13_UpsertFeedMeta ==
    /\ \A r1, r2 \in feedRows : r1.feed_id = r2.feed_id => r1 = r2
    /\ \A feed \in Feeds, e \in ETags, lm \in LastMods, t \in now..MaxTime :
         LET rows == upsert_feed_meta(feedRows, feed.id, feed.url, e, lm, t)
             mine == {r \in rows : r.feed_id = feed.id}
         IN  /\ get_feed_meta(rows, feed.id) = [etag |-> e, last_modified |-> lm]
             /\ Cardinality(mine) = 1
             /\ \A r \in mine : r.updated_at = t /\ r.url = feed.url
             /\ {r \in rows : r.feed_id # feed.id}
                  = {r \in feedRows : r.feed_id # feed.id}

\* Both feeds have a meta row, written by fetches; one holds an ETag and a
\* Last-Modified written at second 0, the clock is at 1, and an upsert with
\* both values absent leaves (None, None) for it.
C13_Witness ==
    /\ last.op = "fetch_feed_items"
    /\ now = 1
    /\ \E f1, f2 \in Feeds :
         /\ f1 # f2
         /\ get_feed_meta(feedRows, f2.id).etag = Some("e2")
         /\ \E r \in feedRows :
              /\ r.feed_id = f1.id /\ r.updated_at = 0
              /\ r.etag = Some("e1") /\ r.last_modified = Some("m1")
         /\ get_feed_meta(upsert_feed_meta(feedRows, f1.id, f1.url, None, None, now),
                          f1.id) = NoHeaders

-----------------------------------------------------------------------------
(* Configuration loading: parse_feed_toml *)

MaxTables == 4      \* most elements of the feeds array

\* TOML values: [str |-> s], [bool |-> b], [int |-> n], [list |-> seq].
Str(x) == [str |-> x]
Bool(b) == [bool |-> b]
Int_(n) == [int |-> n]
List(l) == [list |-> l]

IsStr(v) == DOMAIN v = {"str"}
IsBool(v) == DOMAIN v = {"bool"}
IsInt(v) == DOMAIN v = {"int"}
IsList(v) == DOMAIN v = {"list"}

\* bool(v)
PyBool(v) ==
    IF IsStr(v) THEN v.str # ""
    ELSE IF IsBool(v) THEN v.bool
    ELSE IF IsInt(v) THEN v.int # 0
    ELSE v.list # <<>>

\* str(v), for the scalars
PyStr(v) ==
    IF IsStr(v) THEN v.str
    ELSE IF IsBool(v) THEN (IF v.bool THEN "True" ELSE "False")
    ELSE ToString(v.int)

\* str.strip(), on the texts of the model
Strip(x) ==
    CASE x = " "    -> ""
      [] x = " u1 " -> "u1"
      [] x = " i1 " -> "i1"
      [] x = " T "  -> "T"
      [] x = " http://h/f.toml" -> "http://h/f.toml"
      [] x = " alternate " -> "alternate"
      [] x = " B "  -> "B"
      [] OTHER      -> x

\* A [[feeds]] table: each key is missing (None) or holds a value.
Table(url, enabled, tags, id, title) ==
    [url |-> url, enabled |-> enabled, tags |-> tags, id |-> id, title |-> title]

IsTable(f) == "url" \in DOMAIN f

\* derive_feed_id: the first 12 hex digits of sha1(url)
derive_feed_id(url) == "hex12(" \o Sha1Hex(url) \o ")"

\* FeedConfig
FeedConfig(id, title, url, enabled, tags) ==
    [id |-> id, title |-> title, url |-> url, enabled |-> enabled, tags |-> tags]

\* f.get(key) or "" , then str(..).strip()
StrippedOrEmpty(o) == IF o = None \/ ~PyBool(o[1]) THEN "" ELSE Strip(PyStr(o[1]))

\* (mutant) a table without url is taken with an empty url
parse_table_NoUrlCheck(f) ==
    IF ~IsTable(f) THEN <<>>
    ELSE LET url == IF f.url = None THEN "" ELSE Strip(PyStr(f.url[1]))
             fid == IF StrippedOrEmpty(f.id) # "" THEN StrippedOrEmpty(f.id)
                    ELSE derive_feed_id(url)
         IN  << FeedConfig(fid, fid, url, TRUE, <<>>) >>

\* (mutant) the derived id hashes the title along with the url
parse_table_IdFromTitle(f) ==
    IF ~IsTable(f) \/ f.url = None \/ ~IsList(IF f.tags = None THEN List(<<>>)
                                               ELSE f.tags[1])
    THEN <<>>
    ELSE LET url == Strip(PyStr(f.url[1]))
             fid == IF StrippedOrEmpty(f.id) # "" THEN StrippedOrEmpty(f.id)
                    ELSE derive_feed_id(url \o StrippedOrEmpty(f.title))
         IN  IF url = "" THEN <<>>
             ELSE << FeedConfig(fid,
                       IF StrippedOrEmpty(f.title) # ""
                       THEN StrippedOrEmpty(f.title) ELSE fid,
                       url, f.enabled = None \/ PyBool(f.enabled[1]), <<>>) >>

\* The body of the loop of parse_feed_toml for one element f of the feeds
\* array: <<>> when the element is skipped (continue, or an exception
\* caught), else the one FeedConfig appended.
parse_table(f) ==
    IF ~IsTable(f) THEN <<>>                       \* f["url"]: TypeError
    ELSE IF f.url = None THEN <<>>                 \* f["url"]: KeyError
    ELSE LET url == Strip(PyStr(f.url[1])) IN
         IF url = "" THEN <<>>                     \* if not url: continue
         ELSE LET enabled == IF f.enabled = None THEN TRUE
                             ELSE PyBool(f.enabled[1])
                  tags == IF f.tags = None THEN List(<<>>) ELSE f.tags[1]
                  feed_id == IF StrippedOrEmpty(f.id) # ""
                             THEN StrippedOrEmpty(f.id)
                             ELSE derive_feed_id(url)
                  title == IF StrippedOrEmpty(f.title) # ""
                           THEN StrippedOrEmpty(f.title)
                           ELSE feed_id
              IN  IF ~IsList(tags) THEN <<>>       \* for t in tags: TypeError
                  ELSE << FeedConfig(feed_id, title, url, enabled,
                            [i \in 1..Len(tags.list) |-> PyStr(tags.list[i])]) >>

\* The loop over data["feeds"], in order.
RECURSIVE ParseLoop(_)
ParseLoop(feeds_raw) ==
    IF feeds_raw = <<>> THEN <<>>
    ELSE parse_table(Head(feeds_raw)) \o ParseLoop(Tail(feeds_raw))

\* parse_feed_toml: the enabled ones of the feeds parsed.
parse_feed_toml(feeds_raw) == SelectSeq(ParseLoop(feeds_raw), LAMBDA f : f.enabled)

\* The elements the feeds array is built from.
tA == Table(Some(Str("u1")), None, None, None, None)
tB == Table(Some(Str(" u1 ")), Some(Bool(TRUE)), Some(List(<<Str("t"), Int_(7)>>)),
            Some(Str(" ")), Some(Str(" T ")))
tC == Table(Some(Str("u2")), None, None, Some(Str(" i1 ")), Some(Str(" ")))
tD == Table(None, None, None, Some(Str("i1")), Some(Str("T")))
tE == Table(Some(Str(" ")), None, None, None, None)
tF == Table(Some(Str("u2")), Some(Bool(FALSE)), None, None, None)
tG == Table(Some(Str("u1")), None, Some(Int_(5)), None, None)
tH == Int_(1)

TableSet == {tA, tB, tC, tD, tE, tF, tG, tH}

\* The configuration document gets one more element.
AppendTable(f) ==
    /\ Len(data) < MaxTables
    /\ data' = Append(data, f)
    /\ UNCHANGED <<items, feedRows, now, last, firstSeen, okHdrs, metaFrom, subs>>
    /\ UNCHANGED <<fileVars, uiVars, txn, mtx, atom>>

\* load_feed_toml: the document is parsed and the subscriptions replaced.
LoadFeedToml ==
    /\ subs' = parse_feed_toml(data)
    /\ last' = [op |-> "parse_feed_toml", feed |-> "", resight |-> FALSE,
                raised |-> FALSE]
    /\ UNCHANGED <<items, feedRows, now, firstSeen, okHdrs, metaFrom, data>>
    /\ UNCHANGED <<fileVars, uiVars, txn, mtx, atom>>

NextConfig ==
    \/ \E f \in TableSet : AppendTable(f)
    \/ LoadFeedToml

SpecConfig == Init /\ [][NextConfig]_vars

-----------------------------------------------------------------------------
(* Properties of parse_feed_toml *)

\* The element is a table with a non-blank url whose fields extract.
Extracts(f) ==
    /\ IsTable(f)
    /\ f.url # None /\ Strip(PyStr(f.url[1])) # ""
    /\ f.tags # None => IsList(f.tags[1])

\* enabled is true, or missing.
EnabledOrDefault(f) == f.enabled = None \/ PyBool(f.enabled[1])

Retained(d) == {i \in DOMAIN d : Extracts(d[i]) /\ EnabledOrDefault(d[i])}

\* The n-th index of a set of indices, in increasing order.
NthOf(K, n) == CHOOSE i \in K : Cardinality({j \in K : j < i}) = n - 1

\* C14: best-effort loading.  For every document, parse_feed_toml returns
\* one subscription for each element that is a table with a non-blank url,
\* whose fields extract and whose enabled is true or missing, in document
\* order; every other element is skipped, nothing raised.
C14_BestEffortLoad ==
    LET r == parse_feed_toml(data)
        K == Retained(data)
    IN  /\ Len(r) = Cardinality(K)
        /\ \A n \in 1..Len(r) :
             LET f == data[NthOf(K, n)] IN
             /\ r[n].url = Strip(PyStr(f.url[1]))
             /\ r[n].enabled
             /\ <<r[n]>> = parse_table(f)
        /\ \A i \in DOMAIN data : ~Extracts(data[i]) => parse_table(data[i]) = <<>>

\* A document of three valid tables and one table without url, inside the
\* document, has just been loaded: three subscriptions, in document order.
C14_Witness ==
    /\ last.op = "parse_feed_toml"
    /\ data = <<tA, tD, tC, tB>>
    /\ Len(subs) = 3
    /\ subs[1].url = "u1" /\ subs[2].url = "u2" /\ subs[3].url = "u1"

\* C15: stable identity.  A table with a non-blank id gets that id
\* (stripped); a table with a missing or blank id gets derive_feed_id of
\* its url, so two such tables with the same url get the same id, in one
\* document and, the subscriptions loaded earlier being those of an earlier
\* text of the document, across load cycles; a missing or blank title is
\* the id.
C15_StableIdentity ==
    /\ \A i \in DOMAIN data : Extracts(data[i]) =>
         LET f == data[i]
             c == parse_table(f)[1]
         IN  /\ StrippedOrEmpty(f.id) # "" => c.id = StrippedOrEmpty(f.id)
             /\ StrippedOrEmpty(f.id) = "" =>
                  /\ c.id = derive_feed_id(c.url)
                  /\ \A j \in DOMAIN data :
                       (/\ Extracts(data[j])
                        /\ StrippedOrEmpty(data[j].id) = ""
                        /\ parse_table(data[j])[1].url = c.url)
                       => parse_table(data[j])[1].id = c.id
             /\ StrippedOrEmpty(f.title) = "" => c.title = c.id
    /\ \E k \in 0..Len(data) : subs = parse_feed_toml(SubSeq(data, 1, k))

\* Loaded: a document with the url u1 in a table without id and title, and
\* again (with blanks around it) in a table with a blank id and a title,
\* and a table with an id and a blank title.  Both u1 subscriptions have one
\* derived id.  The document has grown since the load.
C15_Witness ==
    /\ last.op = "parse_feed_toml"
    /\ Len(data) = 4 /\ SubSeq(data, 1, 3) = <<tA, tC, tB>>
    /\ Len(subs) = 3
    /\ subs[1].id = subs[3].id /\ subs[1].title = subs[1].id
    /\ subs[3].title = "T"
    /\ subs[2].id = "i1" /\ subs[2].title = "i1"

-----------------------------------------------------------------------------
(* Saving the configuration text: save_feed_toml_text *)

\* The source arguments and the values of the environment variable FEED_TOML.
Sources == {None, Some("feed.toml"), Some(" http://h/f.toml"),
            Some("https://h/f.toml")}
EnvFeedToml == {None, Some("http://h/f.toml")}

\* str.startswith, on the texts of the model
StartsWith(x, prefix) ==
    \/ x = "http://h/f.toml" /\ prefix = "http://"
    \/ x = "https://h/f.toml" /\ prefix = "https://"

\* feed_toml_source: (source or os.environ.get("FEED_TOML", "feed.toml")).strip()
feed_toml_source(source, env) ==
    Strip(IF Truthy(source) THEN source[1]
          ELSE IF env # None THEN env[1] ELSE "feed.toml")

is_remote_source(src) == StartsWith(src, "http://") \/ StartsWith(src, "https://")

\* The texts an editor hands to save_feed_toml_text.
tx1 == Text("t1", [feeds |-> Some(List(<<tA, tC>>))])
tx2 == Text("t2", [feeds |-> Some(List(<<tA, tD>>))])
tx3 == Text("t3", [err |-> "TomlDecodeError"])
tx4 == Text("t4", [feeds |-> Some(Int_(5))])
tx5 == Text("t5", [feeds |-> Some(List(<<tH>>))])
tx6 == Text("t6", [feeds |-> Some(List(<<tB, tE>>))])
tx7 == Text("t7", [feeds |-> Some(List(<<tB>>))])

Texts == {InitialText, tx1, tx2, tx3, tx4, tx5, tx6, tx7}

TextOf(id) == CHOOSE t \in Texts : t.id = id

\* The first index of the feeds list at which validate_feed_toml_text raises, 0-based,
\* or -1.
FirstBad(fs) ==
    LET bad == {i \in 1..Len(fs) :
                   \/ ~IsTable(fs[i])
                   \/ fs[i].url = None
                   \/ Strip(PyStr(fs[i].url[1])) = ""}
    IN  IF bad = {} THEN -1
        ELSE (CHOOSE i \in bad : \A j \in bad : i <= j) - 1

\* validate_feed_toml_text: None when it returns, else the error it raises.
validate_feed_toml_text(text) ==
    IF "err" \in DOMAIN text.parsed THEN Some(text.parsed.err)
    ELSE IF text.parsed.feeds = None THEN None
    ELSE LET fs == text.parsed.feeds[1] IN
         IF ~IsList(fs) THEN Some("feeds must be a list")
         ELSE LET idx == FirstBad(fs.list) IN
              IF idx = -1 THEN None
              ELSE IF ~IsTable(fs.list[idx + 1])
              THEN Some("feeds[" \o ToString(idx) \o "] must be a table")
              ELSE Some("feeds[" \o ToString(idx) \o "].url is required")

\* (mutant) the text is written without being validated
save_feed_toml_text_NoValidate(text, source, env, f) ==
    LET src == feed_toml_source(source, env) IN
    [ pc     |-> IF is_remote_source(src) THEN "failed" ELSE "validated",
      text   |-> text.id,
      src    |-> src,
      error  |-> IF is_remote_source(src)
                 THEN "Remote FEED_TOML is not writable" ELSE "",
      before |-> f ]

\* save_feed_toml_text up to the open of the file: the path is resolved and
\* the text validated; either raises.
save_feed_toml_text(text, source, env, f) ==
    LET src == feed_toml_source(source, env)
        verr == validate_feed_toml_text(text)
    IN  [ pc     |-> IF is_remote_source(src) \/ verr # None
                     THEN "failed" ELSE "validated",
          text   |-> text.id,
          src    |-> src,
          error  |-> IF is_remote_source(src)
                     THEN "Remote FEED_TOML is not writable"
                     ELSE IF verr # None THEN verr[1] ELSE "",
          before |-> f ]

\* A call of save_feed_toml_text(text, source); no other save is under way.
SaveCall(text, source, env) ==
    /\ save.pc \in {"idle", "failed", "done", "interrupted"}
    /\ save' = save_feed_toml_text(text, source, env, file)
    /\ UNCHANGED <<coreVars, cfgVars, file, uiVars, txn, mtx, atom>>

\* open(path, "w") truncates the file.
SaveOpen ==
    /\ save.pc = "validated"
    /\ file' = Empty
    /\ save' = [save EXCEPT !.pc = "opened"]
    /\ UNCHANGED <<coreVars, cfgVars, uiVars, txn, mtx, atom>>

\* f.write(text): the text goes to the buffer, and as much of it to the file
\* as the buffer lets through.
SaveWrite ==
    /\ save.pc = "opened"
    /\ file' \in {Empty, Partial(TextOf(save.text)), Whole(TextOf(save.text))}
    /\ save' = [save EXCEPT !.pc = "written"]
    /\ UNCHANGED <<coreVars, cfgVars, uiVars, txn, mtx, atom>>

\* The with block closes the file and the call returns the path.
SaveClose ==
    /\ save.pc = "written"
    /\ file' = Whole(TextOf(save.text))
    /\ save' = [save EXCEPT !.pc = "done"]
    /\ UNCHANGED <<coreVars, cfgVars, uiVars, txn, mtx, atom>>

\* The process is stopped, or the write fails, while the file is open.
SaveInterrupted ==
    /\ save.pc \in {"opened", "written"}
    /\ save' = [save EXCEPT !.pc = "interrupted"]
    /\ UNCHANGED <<coreVars, cfgVars, file, uiVars, txn, mtx, atom>>

NextSave ==
    \/ \E text \in Texts, source \in Sources, env \in EnvFeedToml :
           SaveCall(text, source, env)
    \/ SaveOpen
    \/ SaveWrite
    \/ SaveClose
    \/ SaveInterrupted

SpecSave == Init /\ [][NextSave]_vars

-----------------------------------------------------------------------------
(* Properties of save_feed_toml_text *)

\* C16: the file changes only for a local source and a text that validates.
\* A call with a remote source has failed with the not-writable error, a
\* call with a local source and a text validate_feed_toml_text rejects has
\* failed with the validation error, and in both cases the file is what it
\* was before the call.
C16_SaveGuards ==
    save.pc # "idle" =>
        LET remote == \/ save.src = "http://h/f.toml"
                      \/ save.src = "https://h/f.toml"
            verr == validate_feed_toml_text(TextOf(save.text))
        IN  /\ remote =>
                 /\ save.pc = "failed"
                 /\ save.error = "Remote FEED_TOML is not writable"
                 /\ file = save.before
            /\ (~remote /\ verr # None) =>
                 /\ save.pc = "failed"
                 /\ save.error = verr[1]
                 /\ file = save.before
            /\ file # save.before => ~remote /\ verr = None

\* After a completed save of t1, a save of a text whose second table lacks
\* url has failed with the validation error; the file still holds t1.
C16_Witness ==
    /\ save.pc = "failed"
    /\ save.text = "t2"
    /\ save.error = "feeds[1].url is required"
    /\ file = Whole(tx1)

\* C17 as stated: the save is atomic.  In every state, during a save, after
\* one, or after an interrupted one, the file holds the complete previous
\* text or the complete new text.
C17_AtomicSave ==
    /\ file.kind = "whole"
    /\ save.pc # "idle" => file \in {save.before, Whole(TextOf(save.text))}

-----------------------------------------------------------------------------
(* The user interface (ui.py): the UI thread and the "refresh all" thread *)

FeedById(id) == CHOOSE f \in Feeds : f.id = id

\* What load_feed_toml returns when it succeeds: the configuration of the
\* moment has both feeds, the second only, or none.
FeedList == <<FeedById("f1"), FeedById("f2")>>
FeedLists == {FeedList, <<FeedById("f2")>>, <<>>}

\* The responses the feeds give while the interface runs.
UiResponses == {NetErr("timed out"), Response(200, None, None, TRUE, <<x1>>)}

\* A store operation made by a thread through a handle.
Use(thread, handle, op) == [thread |-> thread, handle |-> handle, op |-> op]

\* The items of s that are in K, in the order of s.
RECURSIVE KeepIn(_, _)
KeepIn(s, K) ==
    IF s = <<>> THEN <<>>
    ELSE IF Head(s) \in K THEN <<Head(s)>> \o KeepIn(Tail(s), K)
    ELSE KeepIn(Tail(s), K)

\* apply_sort_and_filter: the published texts of the model are no dates, so
\* the (stable) sort leaves the order; the filter keeps the items that
\* match the query, whatever the query is.
apply_sort_and_filter(s) ==
    { KeepIn(s, K) : K \in SUBSET {s[i] : i \in 1..Len(s)} }

\* (mutant) the items of the first feed, whichever is selected
cached_items_FirstFeed(its, sel) ==
    IF sel = None THEN {<<>>}
    ELSE UNION { apply_sort_and_filter(c) : c \in read_back(its, FeedList[1]) }

\* show_cached_articles: what all_items can become when sel is selected.
cached_items(its, sel) ==
    IF sel = None THEN {<<>>}
    ELSE UNION { apply_sort_and_filter(c) :
                   c \in read_back(its, FeedById(sel[1])) }

\* show_cached_articles, run on a thread: cache.read_items(selected_feed),
\* unless no feed is selected.
show_cached_articles(thread) ==
    IF selected_feed = None THEN {}
    ELSE {Use(thread, "cache", "read_items")}

\* (mutant) the first feed of the full list is taken, not of the loaded one
selection_after_load_OldFirst(ok, sel, loaded) ==
    IF ~ok THEN None
    ELSE IF sel = None THEN Some(FeedList[1].id)
    ELSE sel

\* load_subscriptions: the selection after load_feed_toml returned loaded
\* (ok) or raised.
selection_after_load(ok, sel, loaded) ==
    IF ~ok THEN None
    ELSE IF sel = None /\ loaded # <<>> THEN Some(loaded[1].id)
    ELSE sel

\* (mutant) only the "refresh all" button is disabled
disable_buttons_AllOnly(v) ==
    [v EXCEPT !.btn_crawl_all_disabled = TRUE, !.progress_visible = TRUE]

\* crawl_all_feeds: both buttons disabled, the progress bar shown.
disable_buttons(v) ==
    [v EXCEPT !.btn_crawl_this_disabled = TRUE,
              !.btn_crawl_all_disabled = TRUE,
              !.progress_visible = TRUE]

\* load_subscriptions() and then show_cached_articles() on the UI thread, as
\* at startup and after a save: the configuration loads, or fails.
LoadSubscriptions(ok, loaded) ==
    /\ feeds' = IF ok THEN loaded ELSE <<>>
    /\ selected_feed' = selection_after_load(ok, selected_feed, loaded)
    /\ uses' = uses \cup IF selected_feed' = None THEN {}
                         ELSE {Use("ui", "cache", "read_items")}
    /\ \E shown \in cached_items(items, selected_feed') :
          view' = [view EXCEPT !.all_items = shown,
                               !.progress_visible = FALSE]
    /\ bulk' = [bulk EXCEPT !.raced = FALSE]
    /\ UNCHANGED <<coreVars, cfgVars, fileVars, txn, mtx, atom>>

\* select_feed on the UI thread (a click in the feed list).
SelectFeed(i) ==
    /\ i \in 1..Len(feeds)
    /\ selected_feed' = Some(feeds[i].id)
    /\ uses' = uses \cup {Use("ui", "cache", "read_items")}
    /\ \E shown \in cached_items(items, selected_feed') :
          view' = [view EXCEPT !.all_items = shown]
    /\ bulk' = [bulk EXCEPT !.raced = FALSE]
    /\ UNCHANGED <<coreVars, cfgVars, fileVars, feeds, txn, mtx, atom>>

\* crawl_feed on the UI thread, from its button: a disabled button gives no
\* click.
CrawlFeed(resp) ==
    /\ ~view.btn_crawl_this_disabled
    /\ bulk' = [bulk EXCEPT !.raced = FALSE,
                            !.overlap = @ \/ bulk.threads > 0]
    /\ IF selected_feed = None
       THEN /\ view' = [view EXCEPT !.all_items = <<>>]
            /\ UNCHANGED <<coreVars, uses>>
       ELSE /\ \E o \in fetch_feed_items(items, feedRows, now,
                                         FeedById(selected_feed[1]), resp,
                                         "none") :
                 /\ FetchOutcome(FeedById(selected_feed[1]), resp, "none", o)
                 /\ \E shown \in apply_sort_and_filter(o.ret) :
                       view' = [view EXCEPT !.all_items = shown,
                                            !.progress_visible = FALSE]
            /\ uses' = uses \cup {Use("ui", "cache", "fetch_feed_items")}
    /\ UNCHANGED <<cfgVars, fileVars, feeds, selected_feed, txn, mtx, atom>>

\* crawl_all_feeds on the UI thread, from its button: the buttons are
\* disabled and the thread is started.
CrawlAllFeeds ==
    /\ ~view.btn_crawl_all_disabled
    /\ feeds # <<>>
    /\ view' = disable_buttons(view)
    /\ bulk' = [NoBulk EXCEPT !.pc = "started",
                              !.threads = bulk.threads + 1,
                              !.overlap = bulk.overlap,
                              !.raced = bulk.raced]
    /\ UNCHANGED <<coreVars, cfgVars, fileVars, feeds, selected_feed, uses,
                   txn, mtx, atom>>

\* _task: local_cache = CacheDB().
BulkOpen ==
    /\ bulk.pc = "started"
    /\ bulk' = [bulk EXCEPT !.pc = "opened", !.local_cache = "open"]
    /\ UNCHANGED <<coreVars, cfgVars, fileVars, feeds, selected_feed, uses,
                   view, txn, mtx, atom>>

\* _task: local_cache = CacheDB() raises (the database cannot be opened):
\* the thread ends there.
BulkOpenFails ==
    /\ bulk.pc = "started"
    /\ bulk' = [bulk EXCEPT !.pc = "dead", !.threads = @ - 1]
    /\ UNCHANGED <<coreVars, cfgVars, fileVars, feeds, selected_feed, uses,
                   view, txn, mtx, atom>>

\* _task: count = len(feeds); processed = 0.
BulkCount ==
    /\ bulk.pc = "opened"
    /\ bulk' = [bulk EXCEPT !.pc = "counted", !.count = Len(feeds),
                            !.processed = 0]
    /\ UNCHANGED <<coreVars, cfgVars, fileVars, feeds, selected_feed, uses,
                   view, txn, mtx, atom>>

\* _task: for i, f in enumerate(feeds): the loop is over the list feeds is
\* bound to at that moment.
BulkEnter ==
    /\ bulk.pc = "counted"
    /\ bulk' = [bulk EXCEPT !.pc = "loop", !.todo = feeds,
                            !.captured = feeds]
    /\ UNCHANGED <<coreVars, cfgVars, fileVars, feeds, selected_feed, uses,
                   view, txn, mtx, atom>>

\* (mutant) an exception of fetch_feed_items is not caught: it ends the
\* thread
BulkFetch_NoCatch(resp, failAt) ==
    /\ bulk.pc = "loop" /\ bulk.todo # <<>>
    /\ FetchEffect(Head(bulk.todo), resp, failAt)
    /\ bulk' = IF last'.raised
               THEN [bulk EXCEPT !.pc = "dead", !.threads = @ - 1,
                                 !.fetched = Append(@, Head(bulk.todo).id),
                                 !.failed = @ \cup {Head(bulk.todo).id}]
               ELSE [bulk EXCEPT !.todo = Tail(bulk.todo),
                                 !.processed = @ + 1,
                                 !.fetched = Append(@, Head(bulk.todo).id)]
    /\ uses' = uses \cup {Use("bulk", "local_cache", "fetch_feed_items")}
    /\ UNCHANGED <<cfgVars, fileVars, feeds, selected_feed, view, txn, mtx,
                   atom>>

\* _task: fetch_feed_items(local_cache, f) for the next feed, an exception
\* of which is caught; processed += 1.
BulkFetch(resp, failAt) ==
    /\ bulk.pc = "loop" /\ bulk.todo # <<>>
    /\ FetchEffect(Head(bulk.todo), resp, failAt)
    /\ bulk' = [bulk EXCEPT !.todo = Tail(bulk.todo),
                            !.processed = @ + 1,
                            !.fetched = Append(@, Head(bulk.todo).id),
                            !.failed = IF last'.raised
                                       THEN @ \cup {Head(bulk.todo).id}
                                       ELSE @]
    /\ uses' = uses \cup {Use("bulk", "local_cache", "fetch_feed_items")}
    /\ UNCHANGED <<cfgVars, fileVars, feeds, selected_feed, view, txn, mtx,
                   atom>>

\* _task: local_cache.close() after the loop; processed/count is reported.
BulkClose ==
    /\ bulk.pc = "loop" /\ bulk.todo = <<>>
    /\ bulk' = [bulk EXCEPT !.pc = "refresh", !.local_cache = "closed"]
    /\ UNCHANGED <<coreVars, cfgVars, fileVars, feeds, selected_feed, uses,
                   view, txn, mtx, atom>>

\* _task: show_cached_articles() to refresh the view, up to
\* items = apply_sort_and_filter(cache.read_items(selected_feed)).
BulkShowCached ==
    /\ bulk.pc = "refresh"
    /\ uses' = uses \cup show_cached_articles("bulk")
    /\ \E shown \in cached_items(items, selected_feed) :
          bulk' = [bulk EXCEPT !.pc = "show", !.items = shown,
                               !.shown_for = selected_feed]
    /\ UNCHANGED <<coreVars, cfgVars, fileVars, feeds, selected_feed, view,
                   txn, mtx, atom>>

\* _task: all_items = items, the end of show_cached_articles(); then the
\* buttons are enabled again, the progress bar is hidden, the thread ends.
BulkFinish ==
    /\ bulk.pc = "show"
    /\ view' = [view EXCEPT !.all_items = bulk.items,
                            !.btn_crawl_this_disabled = FALSE,
                            !.btn_crawl_all_disabled = FALSE,
                            !.progress_visible = FALSE]
    /\ bulk' = [bulk EXCEPT !.pc = "idle", !.threads = @ - 1,
                            !.items = <<>>, !.shown_for = None,
                            !.raced = (selected_feed # bulk.shown_for)]
    /\ UNCHANGED <<coreVars, cfgVars, fileVars, feeds, selected_feed, uses,
                   txn, mtx, atom>>

\* A step of the "refresh all" thread.
BulkStep ==
    \/ BulkOpen
    \/ BulkOpenFails
    \/ BulkCount
    \/ BulkEnter
    \/ \E resp \in UiResponses, failAt \in {"none", "get_feed_meta"} :
          BulkFetch(resp, failAt)
    \/ BulkClose
    \/ BulkShowCached
    \/ BulkFinish

NextUi ==
    \/ \E ok \in BOOLEAN, loaded \in FeedLists : LoadSubscriptions(ok, loaded)
    \/ \E i \in 1..Len(FeedList) : SelectFeed(i)
    \/ \E resp \in UiResponses : CrawlFeed(resp)
    \/ CrawlAllFeeds
    \/ BulkStep

SpecUi == Init /\ [][NextUi]_vars

\* The thread, once started, is scheduled until it ends.
SpecUiFair == SpecUi /\ WF_vars(BulkStep)

-----------------------------------------------------------------------------
(* Properties of the "refresh all" thread *)

\* C18 as stated: every store operation made on the "refresh all" thread
\* goes through the handle that thread opened; none goes through the UI
\* thread's handle (cache).
C18_BulkUsesOwnHandle ==
    \A u \in uses : u.thread = "bulk" => u.handle = "local_cache"

-----------------------------------------------------------------------------
(* upsert_items through two handles on one database: each call runs in its   *)
(* own session, a transaction of the SQLite file.  The first INSERT of a     *)
(* session takes the write lock of the file, which the session keeps until   *)
(* it commits or is closed; the rows it inserted are seen by the other       *)
(* handle after the commit only.                                             *)

\* Entries of the concurrent calls: x1 and x3 have one id, x2 another.
TxnEntries == {x1, x2, x3}

Other(h) == CHOOSE g \in Handles : g # h

HoldsLock(h) == txn[h].pc = "writing"

\* (mutant) a session closed without commit keeps what it inserted
session_rollback_KeepsPartial(its, buf) == its \cup buf

\* The with block of upsert_items left by an exception: the session is
\* closed without commit and its inserts are rolled back.
session_rollback(its, buf) == its

\* session.commit(): the rows inserted in the session become the table's.
session_commit(its, buf) == its \cup buf

\* upsert_items is called on handle h: now is read, the session opened.
UpsertBegin(h, feed, entries) ==
    /\ txn[h].pc = "idle"
    /\ txn' = [txn EXCEPT ![h] =
                 [ pc |-> "active", feed |-> feed.id, entries |-> entries,
                   todo |-> entries, t |-> now, buf |-> {}, inserted |-> 0,
                   skipped |-> 0,
                   base |-> IF txn[Other(h)].pc # "idle"
                            THEN txn[Other(h)].base ELSE items ]]
    /\ UNCHANGED <<coreVars, cfgVars, fileVars, uiVars, mtx, atom>>

\* One turn of the loop on handle h: the INSERT .. ON CONFLICT DO NOTHING of
\* the next entry, which waits while the other session holds the write lock.
UpsertInsert(h) ==
    /\ txn[h].pc \in {"active", "writing"}
    /\ txn[h].todo # <<>>
    /\ ~HoldsLock(Other(h))
    /\ LET c == txn[h]
           row == ItemRowOf(FeedById(c.feed), Head(c.todo), c.t)
           res == InsertOrIgnore(items \cup c.buf, row)
       IN  txn' = [txn EXCEPT ![h] =
                     [c EXCEPT !.pc = "writing",
                               !.todo = Tail(c.todo),
                               !.buf = res.items \ items,
                               !.inserted = c.inserted + res.rowcount,
                               !.skipped = c.skipped + (1 - res.rowcount)]]
    /\ UNCHANGED <<coreVars, cfgVars, fileVars, uiVars, mtx, atom>>

\* The loop is over: session.commit(), and the count is returned.
UpsertCommit(h) ==
    /\ txn[h].pc \in {"active", "writing"}
    /\ txn[h].todo = <<>>
    /\ items' = session_commit(items, txn[h].buf)
    /\ txn' = [txn EXCEPT ![h] = [txn[h] EXCEPT !.pc = "done", !.buf = {}]]
    /\ UNCHANGED <<feedRows, now, last, firstSeen, okHdrs, metaFrom, cfgVars,
                   fileVars, uiVars, mtx, atom>>

\* The call on handle h fails before its loop is over.
UpsertFail(h) ==
    /\ txn[h].pc \in {"active", "writing"}
    /\ txn[h].todo # <<>>
    /\ items' = session_rollback(items, txn[h].buf)
    /\ txn' = [txn EXCEPT ![h] = [txn[h] EXCEPT !.pc = "failed", !.buf = {}]]
    /\ UNCHANGED <<feedRows, now, last, firstSeen, okHdrs, metaFrom, cfgVars,
                   fileVars, uiVars, mtx, atom>>

\* Both calls are over; the handles are free for two more.
TxnNextRound ==
    /\ \A h \in Handles : txn[h].pc \in {"done", "failed"}
    /\ Cardinality(items) < MaxRows
    /\ txn' = [h \in Handles |-> NoTxn]
    /\ UNCHANGED <<coreVars, cfgVars, fileVars, uiVars, mtx, atom>>

\* time.time() moves on.
TxnTick ==
    /\ now < MaxTime
    /\ now' = now + 1
    /\ UNCHANGED <<items, feedRows, last, firstSeen, okHdrs, metaFrom, cfgVars,
                   fileVars, uiVars, txn, mtx, atom>>

NextTxn ==
    \/ TxnTick
    \/ \E h \in Handles, feed \in Feeds,
          entries \in SeqsUpTo(TxnEntries, MaxEntries) :
           UpsertBegin(h, feed, entries)
    \/ \E h \in Handles : UpsertInsert(h)
    \/ \E h \in Handles : UpsertCommit(h)
    \/ \E h \in Handles : UpsertFail(h)
    \/ TxnNextRound

SpecTxn == Init /\ [][NextTxn]_vars

-----------------------------------------------------------------------------
(* Properties of concurrent ingestion *)

\* The items table when the first of the calls under way began.
RoundBase ==
    IF \E h \in Handles : txn[h].pc # "idle"
    THEN txn[CHOOSE h \in Handles : txn[h].pc # "idle"].base
    ELSE items

\* The table after the whole call of handle h, made alone on table its.
AloneOn(h, its) ==
    upsert_items(its, FeedById(txn[h].feed), txn[h].entries, txn[h].t).items

\* C19: concurrent duplicate ingestion is safe.  With two handles running
\* upsert_items in any interleaving, every (feed_id, item_id) is stored
\* once; a call that met conflicts has run to its end, every entry inserted
\* or skipped; and when both calls have returned, their counts sum to the
\* number of pairs newly stored.
C19_ConcurrentIngestion ==
    /\ \A r1, r2 \in items :
         (r1.feed_id = r2.feed_id /\ r1.item_id = r2.item_id) => r1 = r2
    /\ \A h \in Handles : txn[h].pc = "done" =>
         txn[h].inserted + txn[h].skipped = Len(txn[h].entries)
    /\ (\A h \in Handles : txn[h].pc = "done") =>
         txn["cache"].inserted + txn["local_cache"].inserted
             = Cardinality(Keys(items) \ Keys(RoundBase))

\* Both calls, for one feed, have returned; each inserted a row and one of
\* them skipped an entry the other had stored.
C19_Witness ==
    /\ \A h \in Handles : txn[h].pc = "done" /\ txn[h].inserted = 1
    /\ txn["cache"].feed = txn["local_cache"].feed
    /\ \E h \in Handles : txn[h].skipped = 1
    /\ \E e \in TxnEntries : \A h \in Handles :
          \E i \in 1..Len(txn[h].entries) : txn[h].entries[i] = e

\* C20: each call commits atomically.  The items table, which is what
\* read_items sees through any handle, is always the table the calls began
\* on with the whole calls that have committed applied to it one after the
\* other; a call that failed, or that has not committed, has left nothing
\* in it.
C20_AtomicPerCall ==
    LET D == {h \in Handles : txn[h].pc = "done"} IN
    /\ D = {} => items = RoundBase
    /\ \A h \in Handles : D = {h} => items = AloneOn(h, RoundBase)
    /\ D = Handles =>
         \E h \in Handles :
            items = AloneOn(Other(h), AloneOn(h, RoundBase))

\* One call failed after it had inserted a row and before its last entry;
\* the other, for the same feed, has committed two rows.
C20_Witness ==
    /\ \E h \in Handles :
         /\ txn[h].pc = "failed" /\ txn[h].inserted = 1
         /\ Len(txn[h].entries) = 2
         /\ txn[Other(h)].pc = "done" /\ txn[Other(h)].inserted = 2
         /\ txn[h].feed = txn[Other(h)].feed
         /\ txn[h].entries[1] \notin {txn[Other(h)].entries[i] : i \in 1..2}
    /\ Cardinality(items) = 2

-----------------------------------------------------------------------------
(* Order of the two writes of a fetch *)

\* C23: feed meta is never ahead of the items.  In every reachable state,
\* among them those left by a fetch that failed between its two writes, a
\* feed that has a meta row has every item id of the (first EntryCap)
\* entries of the response that row was written from in its items.
C23_MetaNotAheadOfItems ==
    \A f \in FeedIds :
        (\E r \in feedRows : r.feed_id = f) =>
            \A id \in metaFrom[f] : <<f, id>> \in Keys(items)

\* A fetch has just raised at upsert_feed_meta: its entry is stored, and
\* the feed has no meta row yet.  Another feed has a meta row, written from
\* a response with an entry.
C23_Witness ==
    /\ last.op = "fetch_feed_items" /\ last.raised
    /\ \E f, g \in FeedIds :
         /\ f = last.feed /\ g # f
         /\ \E r \in items : r.feed_id = f
         /\ \A r \in feedRows : r.feed_id # f
         /\ \E r \in feedRows : r.feed_id = g
         /\ metaFrom[g] # {}

-----------------------------------------------------------------------------
(* Concurrent upsert_feed_meta calls through two handles *)

\* Arguments (url, etag, last_modified) of the calls.
MetaArgs ==
    { <<"u1", Some("e1"), None>>,
      <<"u1", None, Some("m1")>>,
      <<"u2", Some("e2"), Some("m2")>> }

\* The session of handle h has executed its statement and not yet committed:
\* it holds the write lock of the database file.
MetaHoldsLock(h) == mtx[h].pc = "executed"

\* Number of upsert_feed_meta calls of the round that have committed.
MetaCommitted == Cardinality({h \in Handles : mtx[h].pc = "done"})

\* upsert_feed_meta(feed_id, url, etag, last_modified) through handle h
\* builds its statement: the arguments and the clock go into it.
MetaBuild(h, feed_id, a) ==
    /\ mtx[h].pc = "idle"
    /\ mtx' = [mtx EXCEPT ![h] =
                 [pc |-> "built", feed_id |-> feed_id, url |-> a[1],
                  etag |-> a[2], last_modified |-> a[3], t |-> now,
                  seq |-> 0]]
    /\ UNCHANGED <<coreVars, cfgVars, fileVars, uiVars, txn, atom>>

\* session.execute(stmt): the one INSERT ... ON CONFLICT DO UPDATE runs
\* under the write lock, which no other session may hold.
MetaExecute(h) ==
    /\ mtx[h].pc = "built"
    /\ ~MetaHoldsLock(Other(h))
    /\ mtx' = [mtx EXCEPT ![h].pc = "executed"]
    /\ UNCHANGED <<coreVars, cfgVars, fileVars, uiVars, txn, atom>>

\* session.execute(stmt) while the other session holds the lock for longer
\* than the busy timeout: the call raises and nothing is written.
MetaBusy(h) ==
    /\ mtx[h].pc = "built"
    /\ MetaHoldsLock(Other(h))
    /\ mtx' = [mtx EXCEPT ![h].pc = "failed"]
    /\ UNCHANGED <<coreVars, cfgVars, fileVars, uiVars, txn, atom>>

\* session.commit(): the row of the statement becomes the stored row.
MetaCommit(h) ==
    /\ mtx[h].pc = "executed"
    /\ feedRows' = upsert_feed_meta(feedRows, mtx[h].feed_id, mtx[h].url,
                                    mtx[h].etag, mtx[h].last_modified,
                                    mtx[h].t)
    /\ mtx' = [mtx EXCEPT ![h].pc = "done", ![h].seq = MetaCommitted + 1]
    /\ UNCHANGED <<items, now, last, firstSeen, okHdrs, metaFrom, cfgVars,
                   fileVars, uiVars, txn, atom>>

\* Both calls have returned or raised; the handles are free for new calls.
MetaNextRound ==
    /\ \A h \in Handles : mtx[h].pc \in {"done", "failed"}
    /\ mtx' = [h \in Handles |-> NoMeta]
    /\ UNCHANGED <<coreVars, cfgVars, fileVars, uiVars, txn, atom>>

\* The clock moves on.
MetaTick ==
    /\ now < MaxTime
    /\ now' = now + 1
    /\ UNCHANGED <<items, feedRows, last, firstSeen, okHdrs, metaFrom,
                   cfgVars, fileVars, uiVars, txn, mtx, atom>>

NextMeta ==
    \/ \E h \in Handles, f \in FeedIds, a \in MetaArgs : MetaBuild(h, f, a)
    \/ \E h \in Handles : MetaExecute(h)
    \/ \E h \in Handles : MetaBusy(h)
    \/ \E h \in Handles : MetaCommit(h)
    \/ MetaNextRound
    \/ MetaTick

SpecMeta == Init /\ [][NextMeta]_vars

\* C21: feed-meta upserts are last-writer-wins.  When two concurrent
\* upsert_feed_meta calls for one feed have both completed, the feed has
\* exactly one meta row, and its (url, etag, last_modified) is the whole
\* argument tuple of the call that committed later.
C21_LastWriterWins ==
    \A h \in Handles :
        ( /\ mtx[h].pc = "done" /\ mtx[Other(h)].pc = "done"
          /\ mtx[h].feed_id = mtx[Other(h)].feed_id
          /\ mtx[h].seq > mtx[Other(h)].seq )
        => /\ Cardinality({r \in feedRows : r.feed_id = mtx[h].feed_id}) = 1
           /\ \A r \in feedRows :
                r.feed_id = mtx[h].feed_id =>
                    <<r.url, r.etag, r.last_modified>>
                        = <<mtx[h].url, mtx[h].etag, mtx[h].last_modified>>

\* Two calls for one feed have completed, the earlier with an etag and no
\* last_modified, the later with a last_modified and no etag; the later
\* was built before the earlier committed.
C21_Witness ==
    /\ mtx["cache"].pc = "done" /\ mtx["local_cache"].pc = "done"
    /\ mtx["cache"].feed_id = mtx["local_cache"].feed_id
    /\ mtx["cache"].seq = 1 /\ mtx["local_cache"].seq = 2
    /\ mtx["cache"].etag = Some("e1") /\ mtx["cache"].last_modified = None
    /\ mtx["local_cache"].etag = None
    /\ mtx["local_cache"].last_modified = Some("m1")
    /\ mtx["local_cache"].t < mtx["cache"].t

-----------------------------------------------------------------------------
(* Responses longer than the cap *)

\* An entry told apart by its guid only.
Numbered(i) == Entry("A", "", "", "g" \o ToString(i))

\* A body of n entries g1 .. gn, and one of n entries gn .. g1.
Ascending(n) == [i \in 1..n |-> Numbered(i)]
Descending(n) == [i \in 1..n |-> Numbered(n + 1 - i)]

\* A body whose entry after the cap repeats the guid of its first entry.
Repeating == Ascending(EntryCap) \o <<Entry("B", "", "", "g1")>>

\* Well-formed 200 responses around the cap.
LongResponses ==
    { Response(200, e, None, TRUE, es) :
        e \in {None, Some("e1"), Some("e2")},
        es \in { Ascending(EntryCap - 1), Ascending(EntryCap),
                 Ascending(EntryCap + 1), Descending(EntryCap + 1),
                 Repeating } }

\* fetch_feed_items(cache, feed) answered by a long response: its writes.
FetchLong(feed, resp) ==
    \E w \in reconcile_writes(items, feedRows, now, feed, resp,
                              parse_feed_xml(resp).entries, "none") :
        /\ items' = w.items
        /\ feedRows' = w.feedRows
        /\ now' = w.now
        /\ last' = [op |-> "fetch_feed_items", feed |-> feed.id,
                    resight |-> FALSE, raised |-> FALSE]
        /\ metaFrom' = [metaFrom EXCEPT ![feed.id] =
                          {entry_item_id(e) : e \in
                              {resp.entries[i] :
                                  i \in 1..Min(Len(resp.entries), EntryCap)}}]
        /\ okHdrs' = [okHdrs EXCEPT ![feed.id] =
                         [etag |-> resp.etag,
                          last_modified |-> resp.last_modified]]
        /\ UNCHANGED <<firstSeen, cfgVars, fileVars, uiVars, txn, mtx, atom>>

NextCap ==
    \/ \E resp \in LongResponses : FetchLong(FeedById("f1"), resp)
    \/ Tick

SpecCap == Init /\ [][NextCap]_vars

\* Rows the first n entries of es would be stored as at time t.
RowsOfFirst(feed, es, n, t) ==
    {ItemRowOf(feed, es[i], t) : i \in 1..Min(Len(es), n)}

\* C22: one fetch ingests at most the first EntryCap parsed entries.  In
\* every reachable store and for every long response, the count of a fetch
\* is at most EntryCap, every row it adds is the row of one of the first
\* EntryCap entries, and an entry beyond position EntryCap whose id was not
\* cached (and is not the id of one of the first EntryCap) is not stored.
C22_IngestsAtMostCap ==
    \A feed \in Feeds, resp \in LongResponses :
        LET es == parse_feed_xml(resp).entries
        IN  \A w \in reconcile_writes(items, feedRows, now, feed, resp, es,
                                      "none") :
              /\ w.inserted <= EntryCap
              /\ w.inserted = Cardinality(w.items \ items)
              /\ (w.items \ items) \subseteq RowsOfFirst(feed, es, EntryCap, now)
              /\ \A i \in (EntryCap + 1)..Len(es) :
                    LET k == <<feed.id, entry_item_id(es[i])>> IN
                    ( /\ k \notin Keys(items)
                      /\ k \notin Keys(RowsOfFirst(feed, es, EntryCap, now)) )
                    => k \notin Keys(w.items)

\* A fetch of the descending body of EntryCap + 1 entries has acted on a
\* feed without items: its first EntryCap entries are stored, its last
\* one (g1) is not.
C22_Witness ==
    /\ last.op = "fetch_feed_items" /\ last.feed = "f1"
    /\ Cardinality({r \in items : r.feed_id = "f1"}) = EntryCap
    /\ \A i \in 2..(EntryCap + 1) : <<"f1", "g" \o ToString(i)>> \in Keys(items)
    /\ <<"f1", "g1">> \notin Keys(items)

-----------------------------------------------------------------------------
(* Feeds in one store *)

\* The item rows, and the meta rows, of the feeds other than f.
ItemsOfOthers(its, f) == {r \in its : r.feed_id # f}
MetaOfOthers(rows, f) == {r \in rows : r.feed_id # f}

\* C27: feeds are isolated in the store.  In every reachable store,
\* upsert_items, upsert_feed_meta and fetch_feed_items for a feed, whatever
\* their arguments, the response and the store step that fails, leave the
\* item rows and the meta rows of every other feed as they were.
C27_FeedsIsolated ==
    \A feed \in Feeds :
        /\ \A es \in CheckSeqs :
              ItemsOfOthers(upsert_items(items, feed, es, now).items, feed.id)
                  = ItemsOfOthers(items, feed.id)
        /\ \A a \in MetaArgs :
              MetaOfOthers(upsert_feed_meta(feedRows, feed.id, a[1], a[2],
                                            a[3], now), feed.id)
                  = MetaOfOthers(feedRows, feed.id)
        /\ \A resp \in StoreResponses, failAt \in StoreSteps \cup {"none"} :
              \A o \in fetch_feed_items(items, feedRows, now, feed, resp,
                                        failAt) :
                  /\ ItemsOfOthers(o.items, feed.id)
                         = ItemsOfOthers(items, feed.id)
                  /\ MetaOfOthers(o.feedRows, feed.id)
                         = MetaOfOthers(feedRows, feed.id)

\* Both feeds hold an item with the same item id and both have a meta row,
\* the second of them written by the fetch that has just ended.
C27_Witness ==
    /\ last.op = "fetch_feed_items"
    /\ \E r1, r2 \in items :
          r1.feed_id = "f1" /\ r2.feed_id = "f2" /\ r1.item_id = r2.item_id
    /\ \A f \in FeedIds : \E r \in feedRows : r.feed_id = f

-----------------------------------------------------------------------------
(* The link of an Atom entry *)

MaxLinks == 3

\* A <link> element: each of its attributes rel and href is missing (None)
\* or holds a text.
Link(rel, href) == [rel |-> rel, href |-> href]

Rels == {None, Some(""), Some("alternate"), Some(" alternate "), Some("self")}
Hrefs == {None, Some(" "), Some("A"), Some(" B ")}
Links_ == {Link(r, h) : r \in Rels, h \in Hrefs}

\* link.attrib.get(name) or ""
AttrOrEmpty(o) == IF o = None THEN "" ELSE o[1]

\* (link.attrib.get(name) or "").strip()
RelOf(link) == Strip(AttrOrEmpty(link.rel))
HrefOf(link) == Strip(AttrOrEmpty(link.href))

\* The first loop: the href of the first link with an href and rel
\* "alternate" or "", if there is one.
RECURSIVE FirstAlternate(_)
FirstAlternate(links) ==
    IF links = <<>> THEN None
    ELSE IF /\ HrefOf(Head(links)) # ""
            /\ (RelOf(Head(links)) = "alternate" \/ RelOf(Head(links)) = "")
         THEN Some(HrefOf(Head(links)))
         ELSE FirstAlternate(Tail(links))

\* The second loop: the href of the first link with an href, if any.
RECURSIVE FirstHref(_)
FirstHref(links) ==
    IF links = <<>> THEN None
    ELSE IF HrefOf(Head(links)) # ""
         THEN Some(HrefOf(Head(links)))
         ELSE FirstHref(Tail(links))

\* (mutant) the first loop left out
atom_entry_link_AnyRel(links) ==
    IF FirstHref(links) # None THEN FirstHref(links)[1] ELSE ""

\* _atom_entry_link(entry), on the <link> children of the entry
atom_entry_link(links) ==
    IF FirstAlternate(links) # None THEN FirstAlternate(links)[1]
    ELSE IF FirstHref(links) # None THEN FirstHref(links)[1]
    ELSE ""

\* The document has one more <link> in the entry.
AppendLink(link) ==
    /\ atom.link = None
    /\ Len(atom.links) < MaxLinks
    /\ atom' = [atom EXCEPT !.links = Append(@, link)]
    /\ UNCHANGED <<coreVars, cfgVars, fileVars, uiVars, txn, mtx>>

\* parse_feed_xml takes the link of the entry.
SelectLink ==
    /\ atom.link = None
    /\ atom' = [atom EXCEPT !.link = Some(atom_entry_link(atom.links))]
    /\ UNCHANGED <<coreVars, cfgVars, fileVars, uiVars, txn, mtx>>

\* parse_feed_xml goes on to the next entry.
NextEntry ==
    /\ atom.link # None
    /\ atom' = NoAtom
    /\ UNCHANGED <<coreVars, cfgVars, fileVars, uiVars, txn, mtx>>

NextLinks ==
    \/ \E link \in Links_ : AppendLink(link)
    \/ SelectLink
    \/ NextEntry

SpecLinks == Init /\ [][NextLinks]_vars

\* Position of the first link of the entry with property P, 0 if none.
FirstWhere(P(_)) ==
    IF \E i \in 1..Len(atom.links) : P(atom.links[i])
    THEN CHOOSE i \in 1..Len(atom.links) :
            /\ P(atom.links[i])
            /\ \A j \in 1..(i - 1) : ~P(atom.links[j])
    ELSE 0

\* The attributes as written: absent counts as empty, nothing is stripped.
WrittenQualifies(l) ==
    /\ AttrOrEmpty(l.href) # ""
    /\ AttrOrEmpty(l.rel) \in {"alternate", ""}
WrittenHasHref(l) == AttrOrEmpty(l.href) # ""

\* The attributes as the function reads them: stripped of surrounding
\* white space.
StrippedQualifies(l) == HrefOf(l) # "" /\ RelOf(l) \in {"alternate", ""}
StrippedHasHref(l) == HrefOf(l) # ""

\* C26 as stated: the chosen link is the href, as written, of the first link
\* whose href is non-empty and whose rel is "alternate", absent or empty;
\* else that of the first link with a non-empty href; else "".
C26_LinkAsWritten ==
    atom.link # None =>
        atom.link[1] =
            IF FirstWhere(WrittenQualifies) # 0
            THEN AttrOrEmpty(atom.links[FirstWhere(WrittenQualifies)].href)
            ELSE IF FirstWhere(WrittenHasHref) # 0
            THEN AttrOrEmpty(atom.links[FirstWhere(WrittenHasHref)].href)
            ELSE ""

\* C26, amended: with rel and href both stripped of surrounding white space
\* before they are tested, the chosen link is the stripped href of the
\* first link whose href is non-empty and whose rel is "alternate" or
\* empty (or absent); else the stripped href of the first link with a
\* non-empty href; else "".
C26_LinkSelection ==
    atom.link # None =>
        atom.link[1] =
            IF FirstWhere(StrippedQualifies) # 0
            THEN HrefOf(atom.links[FirstWhere(StrippedQualifies)])
            ELSE IF FirstWhere(StrippedHasHref) # 0
            THEN HrefOf(atom.links[FirstWhere(StrippedHasHref)])
            ELSE ""

\* The link has been taken of an entry whose first link has rel "self", its
\* second a blank href and no rel, its third rel " alternate " and href
\* " B ".
C26_Witness ==
    /\ atom.link = Some("B")
    /\ atom.links = << Link(Some("self"), Some("A")),
                       Link(None, Some(" ")),
                       Link(Some(" alternate "), Some(" B ")) >>

-----------------------------------------------------------------------------
(* Properties of the interface *)

IdsOf(fs) == [i \in 1..Len(fs) |-> fs[i].id]

\* The thread has ended its run: the buttons are enabled again and the
\* progress bar is hidden.
BulkFinished ==
    /\ bulk.pc = "idle"
    /\ ~view.btn_crawl_this_disabled /\ ~view.btn_crawl_all_disabled
    /\ ~view.progress_visible

\* The feeds fetched so far and those still to do are the list the loop
\* runs over, in its order, each once.
BulkInOrder ==
    bulk.pc \in {"loop", "refresh", "show"} =>
        /\ bulk.fetched \o IdsOf(bulk.todo) = IdsOf(bulk.captured)
        /\ bulk.processed = Len(bulk.fetched)

C25_NoReentry ==
    /\ bulk.pc # "idle" =>
          view.btn_crawl_this_disabled /\ view.btn_crawl_all_disabled
    /\ bulk.threads <= 1
    /\ ~bulk.overlap

\* The thread is in its loop, one feed fetched, with a feed selected.
C25_Witness ==
    /\ bulk.pc = "loop" /\ Len(bulk.fetched) = 1
    /\ bulk.threads = 1
    /\ selected_feed # None

\* C28 as stated: the selected feed is none or one of the loaded
\* subscriptions.
C28_SelectedIsLoaded ==
    \/ selected_feed = None
    \/ \E i \in 1..Len(feeds) : feeds[i].id = selected_feed[1]

\* C28, amended: every step that changes the selection sets it to none or
\* to one of the subscriptions loaded at that moment (a reload that
\* succeeds leaves a selection as it is).
C28_SelectionSetFromLoaded ==
    [][ selected_feed' # selected_feed =>
          \/ selected_feed' = None
          \/ \E i \in 1..Len(feeds') : feeds'[i].id = selected_feed'[1]
      ]_vars

\* The first feed is selected and the list loaded last has the second only.
C28_Witness ==
    /\ selected_feed = Some("f1")
    /\ feeds = <<FeedById("f2")>>

\* Every item of the displayed list is of the selected feed.
DisplayedOfSelected ==
    \A i \in 1..Len(view.all_items) :
        /\ selected_feed # None
        /\ view.all_items[i].feed_id = selected_feed[1]

====
